---- MODULE Spec2Model ----
(***************************************************************************)
(* Income classification and aggregation engine of automatic-finance-api   *)
(* (package income): the calculation lifecycle (CalculateIncome,           *)
(* ReCalculateIncome, CompleteCalculation, GetCalculationByNumber), the    *)
(* persistence upsert, the statement decoder and the wordlist classifier.  *)
(*                                                                         *)
(* Go strings are modelled as sequences of one-character strings, so that  *)
(* trimming, case folding, splitting and substring search are computed.    *)
(***************************************************************************)
EXTENDS Integers, Sequences, FiniteSets, TLC

(***************************************************************************)
(* strings                                                                 *)
(***************************************************************************)
UpperChars == <<"A","B","C","D","E","F","G","H","I","J","K","L","M",
                "N","O","P","Q","R","S","T","U","V","W","X","Y","Z">>

LowerChars == <<"a","b","c","d","e","f","g","h","i","j","k","l","m",
                "n","o","p","q","r","s","t","u","v","w","x","y","z">>

WhiteSpace == {" ", "\t", "\n"}

ToLowerChar(c) ==
    IF \E i \in 1..Len(UpperChars) : UpperChars[i] = c
    THEN LowerChars[CHOOSE i \in 1..Len(UpperChars) : UpperChars[i] = c]
    ELSE c

\* strings.ToLower
ToLower(s) == [i \in 1..Len(s) |-> ToLowerChar(s[i])]

\* strings.EqualFold (ASCII)
EqualFold(a, b) == ToLower(a) = ToLower(b)

RECURSIVE TrimLeft(_)
TrimLeft(s) ==
    IF s # <<>> /\ Head(s) \in WhiteSpace THEN TrimLeft(Tail(s)) ELSE s

RECURSIVE TrimRight(_)
TrimRight(s) ==
    IF s # <<>> /\ s[Len(s)] \in WhiteSpace
    THEN TrimRight(SubSeq(s, 1, Len(s) - 1)) ELSE s

\* strings.TrimSpace
TrimSpace(s) == TrimRight(TrimLeft(s))

HasPrefixAt(s, sub, i) ==
    /\ i + Len(sub) - 1 <= Len(s)
    /\ SubSeq(s, i, i + Len(sub) - 1) = sub

\* strings.Contains; also the SQL predicate  column LIKE '%' + sub + '%'
Contains(s, sub) == \E i \in 1..(Len(s) + 1) : HasPrefixAt(s, sub, i)

\* strings.Index, 1-based, 0 when absent (sep is never empty here)
IndexOf(s, sep) ==
    IF Contains(s, sep)
    THEN CHOOSE i \in 1..Len(s) :
            /\ HasPrefixAt(s, sep, i)
            /\ \A j \in 1..(i - 1) : ~HasPrefixAt(s, sep, j)
    ELSE 0

\* strings.Split / strings.SplitSeq with a non-empty separator
RECURSIVE Split(_, _)

\* the pieces of s when the first separator is at i (0: there is none)
SplitAt(s, sep, i) ==
    IF i = 0 THEN <<s>>
    ELSE <<SubSeq(s, 1, i - 1)>> \o Split(SubSeq(s, i + Len(sep), Len(s)), sep)

Split(s, sep) == SplitAt(s, sep, IndexOf(s, sep))

\* strings.ReplaceAll(s, old, "") for a one-character old
RemoveChar(s, c) == SelectSeq(s, LAMBDA x : x # c)

Range(f) == {f[i] : i \in DOMAIN f}

\* the letters of the model that take three bytes in UTF-8 (Lao script);
\* every other character of the model takes one
LaoLetters == {"ກ", "ຂ"}

\* len(s) of a Go string: its length in bytes
RECURSIVE ByteLen(_)
ByteLen(s) ==
    IF s = <<>> THEN 0
    ELSE (IF Head(s) \in LaoLetters THEN 3 ELSE 1) + ByteLen(Tail(s))

(***************************************************************************)
(* income sources and the wordlist classifier                              *)
(***************************************************************************)
SourceUnSpecified == "UNSPECIFIED"
SourceSalary == "SALARY"
SourceAllowance == "ALLOWANCE"
SourceCommission == "COMMISSION"
SourceBasicSalaryInterview == "BASIC_SALARY_INTERVIEW"

\* the tokens of the (already trimmed and lower-cased) target that a short
\* word is compared with: split on "|", trim, split on " ", trim
targetTokens(target) ==
    UNION { { TrimSpace(v) : v \in Range(Split(TrimSpace(t), <<" ">>)) } :
            t \in Range(Split(target, <<"|">>)) }

\* one iteration of the loop of matchWordlists: does the (trimmed) word
\* match the normalised target
wordMatches(target, word) ==
    IF ByteLen(word) <= 3
    THEN \E v \in targetTokens(target) : EqualFold(v, ToLower(word))
    ELSE Contains(target, ToLower(word))

\* the loop of matchWordlists from entry i on; every visited entry has its
\* Word trimmed in place (w.Word = strings.TrimSpace(w.Word))
RECURSIVE matchLoop(_, _, _)

\* entry i, whose Word has just been trimmed in place: return on a match,
\* go on to the next entry otherwise
matchEntry(target, wordlists, i) ==
    IF wordMatches(target, wordlists[i].word)
    THEN [category |-> wordlists[i].category, word |-> wordlists[i].word,
          matched |-> TRUE, wordlists |-> wordlists]
    ELSE matchLoop(target, wordlists, i + 1)

matchLoop(target, wordlists, i) ==
    IF i > Len(wordlists)
    THEN [category |-> SourceUnSpecified, word |-> <<>>, matched |-> FALSE,
          wordlists |-> wordlists]
    ELSE matchEntry(target,
            [wordlists EXCEPT ![i].word = TrimSpace(wordlists[i].word)], i)

\* a classifier in which the last matching entry wins
RECURSIVE matchLoopLast(_, _, _, _)

matchEntryLast(target, wordlists, i, acc) ==
    matchLoopLast(target, wordlists, i + 1,
        IF wordMatches(target, wordlists[i].word)
        THEN [category |-> wordlists[i].category, word |-> wordlists[i].word,
              matched |-> TRUE, wordlists |-> wordlists]
        ELSE acc)

matchLoopLast(target, wordlists, i, acc) ==
    IF i > Len(wordlists) THEN [acc EXCEPT !.wordlists = wordlists]
    ELSE matchEntryLast(target,
            [wordlists EXCEPT ![i].word = TrimSpace(wordlists[i].word)], i, acc)

matchWordlistsLastWins(target, wordlists) ==
    matchLoopLast(ToLower(TrimSpace(target)), wordlists, 1,
        [category |-> SourceUnSpecified, word |-> <<>>, matched |-> FALSE,
         wordlists |-> wordlists])

matchWordlists(target, wordlists) ==
    matchLoop(ToLower(TrimSpace(target)), wordlists, 1)

(***************************************************************************)
(* decimal.Decimal                                                         *)
(* A decimal is the integer  value * Scale.  Add, Sub and Mul are exact;   *)
(* Div rounds half away from zero to DivisionPrecision fractional digits,  *)
(* as shopspring's Div does (the library rounds to 16 digits; the model    *)
(* keeps the rounding and shortens the precision).  The two extra digits   *)
(* of Scale hold the exact products with 0.8 and with an exchange rate of  *)
(* one fractional digit.                                                   *)
(***************************************************************************)
DivisionPrecision == 2

RECURSIVE Pow10(_)
Pow10(n) == IF n <= 0 THEN 1 ELSE 10 * Pow10(n - 1)

ScaleDigits == DivisionPrecision + 2

Scale == Pow10(ScaleDigits)

Zero == 0

NewFromInt(n) == n * Scale

Abs(n) == IF n < 0 THEN 0 - n ELSE n

Sign(n) == IF n < 0 THEN 0 - 1 ELSE 1

\* number of trailing decimal zeros of the scaled integer b (at most ScaleDigits)
RECURSIVE TrailingZeros(_, _)
TrailingZeros(b, k) ==
    IF k < ScaleDigits /\ b # 0 /\ b % 10 = 0
    THEN TrailingZeros(b \div 10, k + 1) ELSE k

\* the product of a and b, b having j trailing zeros
MulShifted(a, b, j) == (a * (b \div Pow10(j))) \div Pow10(ScaleDigits - j)

\* Decimal.Mul: exact product
Mul(a, b) == MulShifted(a, b, TrailingZeros(Abs(b), 0))

\* the quotient of two naturals, rounded half up
RoundedQuotient(num, den) ==
    IF 2 * (num % den) >= den THEN (num \div den) + 1 ELSE num \div den

\* Decimal.Div = DivRound(d2, DivisionPrecision); d2 is never zero where called
Div(a, b) ==
    Sign(a) * Sign(b) * RoundedQuotient(Abs(a) * Pow10(DivisionPrecision), Abs(b))
        * Pow10(ScaleDigits - DivisionPrecision)

\* decimal.NewFromFloat(0.8)
EightTenths == (8 * Scale) \div 10

Digits == <<"0","1","2","3","4","5","6","7","8","9">>

IsDigit(c) == \E i \in 1..10 : Digits[i] = c

DigitVal(c) == (CHOOSE i \in 1..10 : Digits[i] = c) - 1

AllDigits(s) == \A i \in 1..Len(s) : IsDigit(s[i])

RECURSIVE Atoi(_)
Atoi(s) == IF s = <<>> THEN 0
           ELSE 10 * Atoi(SubSeq(s, 1, Len(s) - 1)) + DigitVal(s[Len(s)])

\* decimal.NewFromString for plain decimal notation: an optional sign, digits,
\* at most one point, at least one digit; anything else is an error.
\* Fraction digits beyond ScaleDigits are not used by the inputs of the model.
\* the value of the integer digits ip and the fraction digits fp
decimalOfDigits(sign, ip, fp) ==
    IF /\ AllDigits(ip) /\ AllDigits(fp)
       /\ Len(ip) + Len(fp) > 0
       /\ Len(fp) <= ScaleDigits
    THEN [ok |-> TRUE,
          val |-> sign * (Atoi(ip) * Scale + Atoi(fp) * Pow10(ScaleDigits - Len(fp)))]
    ELSE [ok |-> FALSE, val |-> Zero]

\* the value of the unsigned number cut at its points
decimalOfParts(sign, parts) ==
    IF Len(parts) = 1 THEN decimalOfDigits(sign, parts[1], <<>>)
    ELSE IF Len(parts) = 2 THEN decimalOfDigits(sign, parts[1], parts[2])
    ELSE [ok |-> FALSE, val |-> Zero]

NewFromString(s) ==
    IF s # <<>> /\ Head(s) = "-" THEN decimalOfParts(0 - 1, Split(Tail(s), <<".">>))
    ELSE IF s # <<>> /\ Head(s) = "+" THEN decimalOfParts(1, Split(Tail(s), <<".">>))
    ELSE decimalOfParts(1, Split(s, <<".">>))

(***************************************************************************)
(* time.Time (calendar dates), layout "02/01/2006"                         *)
(***************************************************************************)
ZeroTime == [y |-> 1, m |-> 1, d |-> 1]

IsLeap(y) == (y % 4 = 0 /\ y % 100 # 0) \/ y % 400 = 0

DaysIn(m, y) ==
    IF m = 2 THEN (IF IsLeap(y) THEN 29 ELSE 28)
    ELSE IF m \in {4, 6, 9, 11} THEN 30 ELSE 31

\* time.ParseInLocation("02/01/2006", s, time.Local)
\* the date of a day, a month and a year, when there is such a day
dateOf(d, m, y) ==
    IF m \in 1..12 /\ d >= 1 /\ d <= DaysIn(m, y)
    THEN [ok |-> TRUE, t |-> [y |-> y, m |-> m, d |-> d]]
    ELSE [ok |-> FALSE, t |-> ZeroTime]

ParseDate(s) ==
    IF /\ Len(s) = 10
       /\ s[3] = "/" /\ s[6] = "/"
       /\ \A i \in {1, 2, 4, 5, 7, 8, 9, 10} : IsDigit(s[i])
    THEN dateOf(Atoi(SubSeq(s, 1, 2)), Atoi(SubSeq(s, 4, 5)), Atoi(SubSeq(s, 7, 10)))
    ELSE [ok |-> FALSE, t |-> ZeroTime]

\* Time.Before
Before(a, b) ==
    \/ a.y < b.y
    \/ a.y = b.y /\ a.m < b.m
    \/ a.y = b.y /\ a.m = b.m /\ a.d < b.d

MonthNames == <<"January","February","March","April","May","June","July",
                "August","September","October","November","December">>

\* Time.Format("January-2006"): the bucket label, a (month name, year) pair
monthLabel(t) == <<MonthNames[t.m], t.y>>

\* getMonthWithYYYYMM: "" when the cell is no date
labelOfParsed(p) == IF p.ok THEN monthLabel(p.t) ELSE <<>>

getMonthWithYYYYMM(s) == labelOfParsed(ParseDate(s))

\* time.Parse("January-2006", label), errors ignored: the zero time
parseMonthLabel(label) ==
    IF /\ Len(label) = 2
       /\ \E i \in 1..12 : MonthNames[i] = label[1]
       /\ label[2] \in Nat
    THEN [y |-> label[2], m |-> CHOOSE i \in 1..12 : MonthNames[i] = label[1],
          d |-> 1]
    ELSE ZeroTime

countMonth(from, to) ==
    IF Before(to, from) THEN Zero
    ELSE NewFromInt((to.y - from.y) * 12 + (to.m - from.m))

(***************************************************************************)
(* products, statuses                                                      *)
(***************************************************************************)
ProductUnSpecified == "UNSPECIFIED"
ProductSA == "SA"
ProductSF == "SF"
ProductPL == "PL"

StatusPending == "PENDING"
StatusCompleted == "COMPLETED"

(***************************************************************************)
(* the formula engine over a statMap                                       *)
(* A statMap is a function from source keys to statCal records             *)
(* [Transactions, Monthly, Total, AverageMonth]; Transactions and          *)
(* AverageMonth are functions from bucket keys (month label or title).     *)
(***************************************************************************)
EmptyMap == << >>

RECURSIVE sumAmounts(_)
sumAmounts(amounts) ==
    IF amounts = <<>> THEN Zero ELSE Head(amounts) + sumAmounts(Tail(amounts))

RECURSIVE sumTransactions(_)
sumTransactions(ts) ==
    IF ts = <<>> THEN Zero ELSE Head(ts).Amount + sumTransactions(Tail(ts))

RECURSIVE minOf(_, _)
minOf(amounts, min) ==
    IF amounts = <<>> THEN min
    ELSE minOf(Tail(amounts), IF Head(amounts) < min THEN Head(amounts) ELSE min)

findMinAmount(amounts) ==
    IF Len(amounts) = 0 THEN Zero ELSE minOf(amounts, amounts[1])

findMinFromTransactions(ts) ==
    IF Len(ts) = 0 THEN Zero
    ELSE minOf([i \in 1..Len(ts) |-> ts[i].Amount], ts[1].Amount)

\* the smallest single transaction amount of all buckets
findMinTransactionFromMonthlySalaries(ms) ==
    IF Len(ms) = 0 THEN Zero
    ELSE minOf([i \in 1..Len(ms) |-> findMinFromTransactions(ms[i].Transactions)],
               findMinFromTransactions(ms[1].Transactions))

findMinAmountFromMonthlySalaries(ms) ==
    IF Len(ms) = 0 THEN Zero
    ELSE minOf([i \in 1..Len(ms) |-> ms[i].Total], ms[1].Total)

\* the bucket keys in chronological order of their parsed label
\* (sort.Slice by time.Parse("January-2006", label))
RECURSIVE sortLabels(_)

sortLabelsFrom(keys, k) == <<k>> \o sortLabels(keys \ {k})

sortLabels(keys) ==
    IF keys = {} THEN <<>>
    ELSE sortLabelsFrom(keys,
            CHOOSE x \in keys :
                \A z \in keys : ~Before(parseMonthLabel(z), parseMonthLabel(x)))

RECURSIVE sumOfBucketMinima(_, _)

sumOfBucketMinimaFrom(txs, keys, k) ==
    findMinFromTransactions(txs[k]) + sumOfBucketMinima(txs, keys \ {k})

\* the sum, over the buckets, of the smallest amount of each
sumOfBucketMinima(txs, keys) ==
    IF keys = {} THEN Zero
    ELSE sumOfBucketMinimaFrom(txs, keys, CHOOSE x \in keys : TRUE)

\* the sum of all salary amounts, whatever the product
totalIncomeOfAllAmounts(s, product) ==
    IF product \in {ProductSA, ProductPL, ProductSF}
    THEN IF SourceSalary \notin DOMAIN s THEN Zero ELSE s[SourceSalary].Total
    ELSE Zero

totalIncome(s, product) ==
    IF product = ProductSA
    THEN IF SourceSalary \notin DOMAIN s THEN Zero
         ELSE sumOfBucketMinima(s[SourceSalary].Transactions,
                                DOMAIN s[SourceSalary].Transactions)
    ELSE IF product \in {ProductPL, ProductSF}
    THEN IF SourceSalary \notin DOMAIN s THEN Zero ELSE s[SourceSalary].Total
    ELSE Zero

basicSalaryFromInterview(s) ==
    IF SourceBasicSalaryInterview \notin DOMAIN s THEN Zero
    ELSE s[SourceBasicSalaryInterview].Total

\* the months that hold a transaction, in chronological order
sortedMonths(txs) == sortLabels({k \in DOMAIN txs : Len(txs[k]) # 0})

monthlySalariesOf(txs, order) ==
    [i \in 1..Len(order) |->
        [Month |-> order[i],
         TimesReceived |-> NewFromInt(Len(txs[order[i]])),
         Total |-> sumTransactions(txs[order[i]]),
         Transactions |-> txs[order[i]]]]

toListMonthlySalaries(s) ==
    IF SourceSalary \notin DOMAIN s
    THEN [MonthlySalaries |-> <<>>, BasicSalary |-> Zero, Total |-> Zero]
    ELSE [MonthlySalaries |->
                monthlySalariesOf(s[SourceSalary].Transactions,
                                  sortedMonths(s[SourceSalary].Transactions)),
          BasicSalary |-> findMinAmount(s[SourceSalary].Monthly),
          Total |-> s[SourceSalary].Total]

commissionsOf(txs, order) ==
    [i \in 1..Len(order) |->
        [Month |-> order[i],
         Transactions |-> txs[order[i]],
         Total |-> sumTransactions(txs[order[i]])]]

toListCommissions(s, period) ==
    IF SourceCommission \notin DOMAIN s
    THEN [Commissions |-> <<>>, MonthlyAverage |-> Zero, Total |-> Zero]
    ELSE [Commissions |->
                commissionsOf(s[SourceCommission].Transactions,
                              sortedMonths(s[SourceCommission].Transactions)),
          Total |-> s[SourceCommission].Total,
          MonthlyAverage |-> IF period # Zero
                             THEN Div(s[SourceCommission].Total, period)
                             ELSE Zero]

\* the loop of toListAllowances over the titles in the order the map yields
\* them; months is carried from one title to the next; a zero divisor makes
\* Decimal.Div panic
RECURSIVE allowanceLoop(_, _, _, _)

\* the body of the loop for a title with transactions tx, months being the
\* divisor in force
allowanceEntry(raw, order, months, acc, tx) ==
    IF months = Zero THEN [acc EXCEPT !.panic = TRUE]
    ELSE allowanceLoop(raw, Tail(order), months,
            [acc EXCEPT
                !.Allowances = Append(@,
                    [Title |-> Head(order), Months |-> months,
                     MonthlyAverage |-> Div(sumTransactions(tx), months),
                     Total |-> sumTransactions(tx), Transactions |-> tx]),
                !.Total = @ + Div(sumTransactions(tx), months)])

allowanceLoop(raw, order, months, acc) ==
    IF order = <<>> \/ acc.panic THEN acc
    ELSE IF Len(raw.Transactions[Head(order)]) = 0
    THEN allowanceLoop(raw, Tail(order), months, acc)
    ELSE allowanceEntry(raw, order,
            IF Head(order) \in DOMAIN raw.AverageMonth
            THEN raw.AverageMonth[Head(order)] ELSE months,
            acc, raw.Transactions[Head(order)])

\* order: the iteration order of the Go map raw.Transactions, a sequence
\* that enumerates its keys
toListAllowances(s, order) ==
    IF SourceAllowance \notin DOMAIN s
    THEN [Allowances |-> <<>>, Total |-> Zero, panic |-> FALSE]
    ELSE allowanceLoop(s[SourceAllowance], order, NewFromInt(12),
            [Allowances |-> <<>>, Total |-> Zero, panic |-> FALSE])

\* the orders in which a Go map may be ranged over
RECURSIVE Perms(_)
Perms(keys) ==
    IF keys = {} THEN { <<>> }
    ELSE UNION { { <<k>> \o p : p \in Perms(keys \ {k}) } : k \in keys }

allowanceOrders(s) ==
    IF SourceAllowance \notin DOMAIN s THEN { <<>> }
    ELSE Perms(DOMAIN s[SourceAllowance].Transactions)

\* a basic salary that follows the SA rule for SF
basicSalaryOfSFBySARule(s, product, period) ==
    IF product \in {ProductSA, ProductSF}
    THEN IF period = Zero THEN Zero
         ELSE IF totalIncome(s, ProductSA) = Zero THEN Zero
         ELSE Div(totalIncome(s, ProductSA), period)
    ELSE IF product = ProductPL
    THEN findMinAmountFromMonthlySalaries(toListMonthlySalaries(s).MonthlySalaries)
    ELSE Zero

basicSalary(s, product, period) ==
    IF product = ProductSA
    THEN IF period = Zero THEN Zero
         ELSE IF totalIncome(s, ProductSA) = Zero THEN Zero
         ELSE Div(totalIncome(s, ProductSA), period)
    ELSE IF product \in {ProductPL, ProductSF}
    THEN findMinAmountFromMonthlySalaries(toListMonthlySalaries(s).MonthlySalaries)
    ELSE Zero

totalBasicSalary(s, product, period) ==
    IF period = Zero THEN Zero
    ELSE IF product = ProductSA
    THEN IF totalIncome(s, ProductSA) = Zero THEN Zero
         ELSE Div(totalIncome(s, ProductSA), period)
    ELSE IF product \in {ProductPL, ProductSF}
    THEN Mul(basicSalary(s, product, period), period)
    ELSE Zero

\* the amount, or zero when it is negative
nonNegative(o) == IF o < Zero THEN Zero ELSE o

totalOtherIncome(s, period) ==
    IF period = Zero THEN Zero
    ELSE nonNegative(totalIncome(s, ProductPL)
                        - totalBasicSalary(s, ProductPL, period))

averageOtherIncome(s, period) ==
    IF period = Zero THEN Zero
    ELSE IF totalOtherIncome(s, period) = Zero THEN Zero
    ELSE Div(totalOtherIncome(s, period), period)

averageCommission(s, period) == toListCommissions(s, period).MonthlyAverage

\* order does not change the total; it is the map order of this call
averageAllowance(s, period, order) == toListAllowances(s, order).Total

\* the three averages added up with no discount
averageOtherIncomeInFull(s, period, order) ==
    averageOtherIncome(s, period) + averageCommission(s, period)
        + averageAllowance(s, period, order)

averageOtherIncomeIn80Percent(s, period, order) ==
    Mul(averageOtherIncome(s, period) + averageCommission(s, period)
            + averageAllowance(s, period, order),
        EightTenths)

\* the interview salary when it is positive and below the basic salary,
\* the basic salary otherwise
interviewOrBasic(interview, basic) ==
    IF interview > Zero /\ interview < basic THEN interview ELSE basic

averageMonthlyIncome(s, product, period, order) ==
    IF product = ProductSA
    THEN interviewOrBasic(basicSalaryFromInterview(s),
                          basicSalary(s, ProductSA, period))
            + averageAllowance(s, period, order) + averageCommission(s, period)
    ELSE IF product \in {ProductPL, ProductSF}
    THEN interviewOrBasic(basicSalaryFromInterview(s),
                          basicSalary(s, product, period))
            + averageOtherIncomeIn80Percent(s, period, order)
    ELSE Zero

netIncomeMonthly(s, product, exchangeRate, period, order) ==
    IF period = Zero THEN Zero
    ELSE IF averageMonthlyIncome(s, product, period, order) = Zero THEN Zero
    ELSE Mul(averageMonthlyIncome(s, product, period, order), exchangeRate)

newSourceIncome(m, product, period, order) ==
    [Allowance |-> [Total |-> toListAllowances(m, order).Total,
                    MonthlyAverage |-> averageAllowance(m, period, order)],
     Commission |-> [Total |-> toListCommissions(m, period).Total,
                     MonthlyAverage |-> averageCommission(m, period)],
     BasicSalary |-> [Total |-> totalBasicSalary(m, product, period),
                      MonthlyAverage |-> basicSalary(m, product, period)],
     Other |-> [Total |-> Zero, MonthlyAverage |-> Zero]]

(***************************************************************************)
(* Calculation                                                             *)
(***************************************************************************)
NoBreakdown == "nil"

newCalculation(by, number, statementFileName, product, t) ==
    [ID |-> 0,
     Number |-> number,
     StatementFileName |-> statementFileName,
     Product |-> product,
     Account |-> [Number |-> <<>>, DisplayName |-> <<>>, Currency |-> <<>>],
     ExchangeRate |-> NewFromInt(1),
     MonthlyAverageIncome |-> Zero,
     MonthlyNetIncome |-> Zero,
     TotalOtherIncome |-> Zero,
     TotalBasicSalary |-> Zero,
     TotalIncome |-> Zero,
     PeriodInMonth |-> Zero,
     StartedAt |-> ZeroTime,
     EndedAt |-> ZeroTime,
     Status |-> StatusPending,
     CreatedBy |-> by,
     CreatedAt |-> t,
     UpdatedBy |-> by,
     UpdatedAt |-> t,
     SalaryBreakdown |-> NoBreakdown,
     AllowanceBreakdown |-> NoBreakdown,
     CommissionBreakdown |-> NoBreakdown,
     Source |-> NoBreakdown]

\* Calculation.populate; order is the map order met by toListAllowances.
\* Only called when toListAllowances does not panic.
allowanceBreakdownOf(aw) == [Allowances |-> aw.Allowances, Total |-> aw.Total]

populate(c, product, period, exchangeRate, incomes, order) ==
    [c EXCEPT
        !.Source = newSourceIncome(incomes, product, period, order),
        !.AllowanceBreakdown = allowanceBreakdownOf(toListAllowances(incomes, order)),
        !.CommissionBreakdown = toListCommissions(incomes, period),
        !.SalaryBreakdown = toListMonthlySalaries(incomes),
        !.PeriodInMonth = period,
        !.TotalBasicSalary = totalBasicSalary(incomes, product, period),
        !.TotalIncome = totalIncome(incomes, product),
        !.TotalOtherIncome = totalOtherIncome(incomes, period),
        !.MonthlyAverageIncome =
            averageMonthlyIncome(incomes, product, period, order),
        !.MonthlyNetIncome =
            netIncomeMonthly(incomes, product, exchangeRate, period, order),
        !.ExchangeRate = exchangeRate]

\* the transactions of the buckets whose key is k, appended in list order
RECURSIVE txsOfKey(_, _)
txsOfKey(pairs, k) ==
    IF pairs = <<>> THEN <<>>
    ELSE (IF Head(pairs).key = k THEN Head(pairs).Transactions ELSE <<>>)
            \o txsOfKey(Tail(pairs), k)

\* map[key][]Transaction built by appending the non-empty buckets
groupByKey(pairs) ==
    [k \in {pairs[i].key : i \in {j \in DOMAIN pairs :
                                    Len(pairs[j].Transactions) # 0}}
        |-> txsOfKey(pairs, k)]

RECURSIVE flattenAmounts(_)
flattenAmounts(buckets) ==
    IF buckets = <<>> THEN <<>>
    ELSE [i \in 1..Len(Head(buckets).Transactions) |->
                Head(buckets).Transactions[i].Amount]
            \o flattenAmounts(Tail(buckets))

nonEmpty(buckets) == SelectSeq(buckets, LAMBDA b : Len(b.Transactions) # 0)

totalsOf(buckets) == [i \in 1..Len(buckets) |-> buckets[i].Total]

\* awsAverageMonths[a.Title] = a.Months: the last bucket of a title wins
awsAverageMonths(aws, titles) ==
    [k \in titles |->
        aws[CHOOSE i \in 1..Len(aws) :
                /\ aws[i].Title = k
                /\ \A j \in (i + 1)..Len(aws) : aws[j].Title # k].Months]

allowanceState(aws, awnTxs, awsMonthly) ==
    [Transactions |-> awnTxs,
     Total |-> sumAmounts(awsMonthly),
     Monthly |-> awsMonthly,
     AverageMonth |-> awsAverageMonths(aws, DOMAIN awnTxs)]

commissionState(coms, commMonthly) ==
    [Transactions |-> groupByKey([i \in 1..Len(coms) |->
                [key |-> coms[i].Month, Transactions |-> coms[i].Transactions]]),
     Monthly |-> commMonthly,
     Total |-> sumAmounts(commMonthly),
     AverageMonth |-> EmptyMap]

salaryState(sals, salaryMonthly) ==
    [Transactions |-> groupByKey([i \in 1..Len(sals) |->
                [key |-> sals[i].Month, Transactions |-> sals[i].Transactions]]),
     Monthly |-> salaryMonthly,
     Total |-> sumAmounts(salaryMonthly),
     AverageMonth |-> EmptyMap]

\* the statMap of the non-empty buckets aws, coms and sals
stateMapOf(aws, coms, sals) ==
    (SourceAllowance :>
        allowanceState(aws,
            groupByKey([i \in 1..Len(aws) |->
                [key |-> aws[i].Title, Transactions |-> aws[i].Transactions]]),
            totalsOf(aws)))
    @@ (SourceCommission :> commissionState(coms, totalsOf(coms)))
    @@ (SourceSalary :> salaryState(sals, flattenAmounts(sals)))

\* Calculation.toStateMap
toStateMap(c) ==
    stateMapOf(nonEmpty(c.AllowanceBreakdown.Allowances),
               nonEmpty(c.CommissionBreakdown.Commissions),
               nonEmpty(c.SalaryBreakdown.MonthlySalaries))

\* the request's breakdowns put in place of the calculation's
\* (newSalaryBreakdown, newAllowanceBreakdown, newCommissionBreakdown)
withRequestBreakdowns(c, in) ==
    [c EXCEPT
        !.SalaryBreakdown = [MonthlySalaries |-> in.MonthlySalaries,
                             BasicSalary |-> Zero, Total |-> Zero],
        !.AllowanceBreakdown = [Allowances |-> in.Allowances, Total |-> Zero],
        !.CommissionBreakdown = [Commissions |-> in.Commissions,
                                 MonthlyAverage |-> Zero, Total |-> Zero]]

\* the statMap Calculation.ReCalculate computes from
reCalculateState(c, in) == toStateMap(withRequestBreakdowns(c, in))

\* the map orders toListAllowances may meet during Calculation.ReCalculate
reCalculateOrders(c, in) == allowanceOrders(reCalculateState(c, in))

\* Decimal.Div by a zero months divisor panics inside populate
reCalculatePanics(c, in, order) ==
    toListAllowances(reCalculateState(c, in), order).panic

\* a recalculation that stamps the creation audit fields too
reCalculateFromAsCreated(c, by, t, order) ==
    populate([c EXCEPT !.UpdatedAt = t, !.UpdatedBy = by,
                       !.CreatedAt = t, !.CreatedBy = by],
             c.Product, c.PeriodInMonth, c.ExchangeRate, toStateMap(c), order)

\* the rest of Calculation.ReCalculate, c holding the request's breakdowns
reCalculateFrom(c, by, t, order) ==
    populate([c EXCEPT !.UpdatedAt = t, !.UpdatedBy = by],
             c.Product, c.PeriodInMonth, c.ExchangeRate, toStateMap(c), order)

\* Calculation.ReCalculate (t is time.Now())
ReCalculate(c, by, in, t, order) ==
    reCalculateFrom(withRequestBreakdowns(c, in), by, t, order)

\* Calculation.Complete (t is time.Now())
Complete(c, by, t) ==
    [c EXCEPT !.Status = StatusCompleted, !.UpdatedAt = t, !.UpdatedBy = by]

\* a status test that takes every calculation for pending
IsCompletedNever(c) == FALSE

IsCompleted(c) == c.Status = StatusCompleted

(***************************************************************************)
(* the statement sheet and its decoder                                     *)
(***************************************************************************)
\* the separator " : " of the header cells
HeaderSep == <<" ", ":", " ">>

\* the separator between the two dates of the period cell: the Lao word for
\* "to" between two spaces; the word is one character of the model
PeriodSep == <<" ", "~", " ">>

\* the value of a header cell cut at " : "
headerValue(r) == IF Len(r) # 2 THEN <<>> ELSE TrimSpace(r[2])

extractAccount(raw) == headerValue(Split(TrimSpace(raw), HeaderSep))

NoPeriod == [panic |-> FALSE, from |-> ZeroTime, to |-> ZeroTime]

\* the end of the period, once its start was parsed; period[1] of a cell
\* without the separator is an index out of range
periodUntil(from, period) ==
    IF Len(period) < 2 THEN [panic |-> TRUE, from |-> from, to |-> ZeroTime]
    ELSE [panic |-> FALSE, from |-> from, to |-> ParseDate(period[2]).t]

periodFrom(from, period) ==
    IF ~from.ok THEN NoPeriod ELSE periodUntil(from.t, period)

periodOfDates(period) == periodFrom(ParseDate(period[1]), period)

periodOfCell(r) ==
    IF Len(r) # 2 THEN NoPeriod ELSE periodOfDates(Split(r[2], PeriodSep))

extractPeriod(raw) == periodOfCell(Split(TrimSpace(raw), HeaderSep))

NewStatCal ==
    [Transactions |-> EmptyMap, Monthly |-> <<>>, Total |-> Zero,
     AverageMonth |-> EmptyMap]

\* the transaction appended to the bucket of the statCal cur
addToStatCal(cur, bucket, transaction, isAllowance) ==
    [Transactions |->
        (bucket :> Append(IF bucket \in DOMAIN cur.Transactions
                          THEN cur.Transactions[bucket] ELSE <<>>,
                          transaction))
            @@ cur.Transactions,
     Monthly |-> Append(cur.Monthly, transaction.Amount),
     Total |-> cur.Total + transaction.Amount,
     AverageMonth |-> IF isAllowance
                      THEN (bucket :> NewFromInt(12)) @@ cur.AverageMonth
                      ELSE cur.AverageMonth]

\* one case of the switch in calculateIncomeFromStatementFile
addIncome(incomes, key, bucket, transaction, isAllowance) ==
    (key :> addToStatCal(IF key \in DOMAIN incomes THEN incomes[key]
                         ELSE NewStatCal,
                         bucket, transaction, isAllowance))
    @@ incomes

SkipRow == [skip |-> TRUE]

\* a row decoder that takes every parsed amount, positive or not
decodedRowAnyAmount(row, amount, date) ==
    IF ~amount.ok THEN SkipRow
    ELSE IF Len(row[3]) = 0 THEN SkipRow
    ELSE IF ~date.ok THEN SkipRow
    ELSE [skip |-> FALSE,
          month |-> labelOfParsed(date),
          transaction |-> [Amount |-> amount.val, Date |-> date.t,
                           BillNumber |-> row[2], Noted |-> row[3]]]

\* the transaction of a row whose amount and date were parsed
decodedRow(row, amount, date) ==
    IF ~amount.ok \/ ~(amount.val > Zero) THEN SkipRow
    ELSE IF Len(row[3]) = 0 THEN SkipRow
    ELSE IF ~date.ok THEN SkipRow
    ELSE [skip |-> FALSE,
          month |-> labelOfParsed(date),
          transaction |-> [Amount |-> amount.val, Date |-> date.t,
                           BillNumber |-> row[2], Noted |-> row[3]]]

\* the decoding of one row: a transaction with its month label, or a skip
decodeRow(row) ==
    IF Len(row) <= 4 THEN SkipRow
    ELSE decodedRow(row, NewFromString(RemoveChar(row[5], ",")), ParseDate(row[1]))

RECURSIVE rowLoop(_, _, _)

\* the switch on the category of the matched wordlist entry
classifiedRow(rows, incomes, d, m) ==
    IF ~m.matched THEN rowLoop(Tail(rows), m.wordlists, incomes)
    ELSE IF m.category = SourceSalary
    THEN rowLoop(Tail(rows), m.wordlists,
            addIncome(incomes, SourceSalary, d.month, d.transaction, FALSE))
    ELSE IF m.category = SourceCommission
    THEN rowLoop(Tail(rows), m.wordlists,
            addIncome(incomes, SourceCommission, d.month, d.transaction, FALSE))
    ELSE IF m.category = SourceAllowance
    THEN rowLoop(Tail(rows), m.wordlists,
            addIncome(incomes, SourceAllowance, m.word, d.transaction, TRUE))
    ELSE rowLoop(Tail(rows), m.wordlists, incomes)

rowStep(rows, wordlists, incomes, d) ==
    IF d.skip THEN rowLoop(Tail(rows), wordlists, incomes)
    ELSE classifiedRow(rows, incomes, d, matchWordlists(Head(rows)[3], wordlists))

\* the row loop of calculateIncomeFromStatementFile
rowLoop(rows, wordlists, incomes) ==
    IF rows = <<>> THEN incomes
    ELSE rowStep(rows, wordlists, incomes, decodeRow(Head(rows)))

\* what a failed read yields
failedRead(err) ==
    [err |-> err, from |-> ZeroTime, to |-> ZeroTime,
     account |-> [Number |-> <<>>, DisplayName |-> <<>>, Currency |-> <<>>],
     rate |-> Zero, incomes |-> EmptyMap]

\* the header test of calculateIncomeFromStatementFile
headerInvalid(number, name, currency) ==
    Len(number) = 0 \/ Len(name) = 0 \/ ByteLen(TrimSpace(currency)) # 3

\* the sheet-reading part of calculateIncomeFromStatementFile after the
\* header cells were extracted: the failure ("none" when it succeeds) and
\* what it read
decodeHeaders(statement, wordlists, currencies, p, number, name, currency) ==
    IF p.panic THEN failedRead("panic")
    ELSE IF headerInvalid(number, name, currency) THEN failedRead("header")
    ELSE IF currency \notin DOMAIN currencies THEN failedRead("currency")
    ELSE [err |-> "none", from |-> p.from, to |-> p.to,
          account |-> [Number |-> number, DisplayName |-> name,
                       Currency |-> currency],
          rate |-> currencies[currency],
          incomes |-> rowLoop(statement.Rows, wordlists, EmptyMap)]

decodeStatement(statement, wordlists, currencies) ==
    IF ~statement.Openable THEN failedRead("open")
    ELSE decodeHeaders(statement, wordlists, currencies,
            extractPeriod(statement.A7), extractAccount(statement.A9),
            extractAccount(statement.A10), extractAccount(statement.A11))

\* the rest of calculateIncomeFromStatementFile, when the sheet was read
\* without failure (d): newCalculation, the header fields, countMonth and
\* populate (t is time.Now(), order the map order met by toListAllowances)
calculateIncomeFromStatementFile(by, cal, statement, d, t, order) ==
    populate([newCalculation(by, cal.Number, statement.Name, cal.Product, t)
                EXCEPT !.StartedAt = d.from, !.EndedAt = d.to,
                       !.Account = d.account],
             cal.Product, countMonth(d.from, d.to), d.rate, d.incomes, order)

(***************************************************************************)
(* the collaborators: wordlist store, currency service, statement store    *)
(***************************************************************************)
\* listWordlists with WordlistQuery.Category set: the entries of one
\* category, in the order of the table
wordlistsOfCategory(wordlists, category) ==
    SelectSeq(wordlists, LAMBDA w : w.category = category)

\* the test listTransactionFromStatementFile makes on a row decoded as d:
\* more than 4 cells, a positive amount, a memo that matches an entry of
\* wordlists, a date, and the month asked for
listedRow(row, d, wordlists, month) ==
    /\ ~d.skip
    /\ matchWordlists(row[3], wordlists).matched
    /\ d.month = month

RECURSIVE listLoop(_, _, _)
listLoop(rows, wordlists, month) ==
    IF rows = <<>> THEN <<>>
    ELSE (IF listedRow(Head(rows), decodeRow(Head(rows)), wordlists, month)
          THEN <<decodeRow(Head(rows)).transaction>> ELSE <<>>)
            \o listLoop(Tail(rows), wordlists, month)

listTransactionFromStatementFile(txReq, wordlists, statement) ==
    listLoop(statement.Rows, wordlists, txReq.Month)

\* the rows of income_wordlist as listWordlists returns them
\* (created_at DESC)
Wordlists ==
    << [word |-> <<"p","a","y">>, category |-> SourceSalary],
       [word |-> <<"o","t">>, category |-> SourceCommission],
       [word |-> <<"f","u","e","l"," ">>, category |-> SourceAllowance],
       [word |-> <<"m","e","a","l">>, category |-> SourceAllowance] >>

\* the currency table: code -> exchange rate
Currencies ==
    (<<"L","A","K">> :> NewFromInt(1)) @@ (<<"U","S","D">> :> (3 * Scale) \div 2)

\* the statement_file table with the sheet "Table 1" of each file
StatementFiles ==
    ("good" :>
        [Name |-> "good", Openable |-> TRUE,
         A7 |-> <<"P"," ",":"," ","0","5","/","0","1","/","2","0","2","4"," ","~"," ","3","1","/","0","3","/","2","0","2","4">>,
         A9 |-> <<"N","o"," ",":"," ","1">>,
         A10 |-> <<"N","a","m","e"," ",":"," ","n">>,
         A11 |-> <<"C","c","y"," ",":"," ","U","S","D">>,
         Rows |-> <<<<<<"0","5","/","0","1","/","2","0","2","4">>, <<"b","1">>, <<"P","a","y"," ","J","a","n">>, <<>>, <<"3">>>>,
            <<<<"2","0","/","0","1","/","2","0","2","4">>, <<"b","2">>, <<"p","a","y"," ","e","x","t","r","a">>, <<>>, <<"1">>>>,
            <<<<"0","5","/","0","2","/","2","0","2","4">>, <<"b","3">>, <<"P","A","Y"," ","f","e","b">>, <<>>, <<"2">>>>,
            <<<<"0","9","/","0","2","/","2","0","2","4">>, <<"b","4">>, <<"O","T"," ","|"," ","b","o","n","u","s">>, <<>>, <<"1">>>>,
            <<<<"1","0","/","0","2","/","2","0","2","4">>, <<"b","5">>, <<"f","u","e","l"," ","c","a","r","d">>, <<>>, <<"1","2">>>>,
            <<<<"1","1","/","0","2","/","2","0","2","4">>, <<"b","6">>, <<"h","o","t"," ","s","o","u","p">>, <<>>, <<"5">>>>,
            <<<<"1","2","/","0","2","/","2","0","2","4">>, <<"b","7">>, <<"p","a","y"," ","b","a","c","k">>, <<>>, <<"-","4">>>>,
            <<<<"1","3","/","0","2","/","2","0","2","4">>, <<"b","8">>, <<>>, <<>>, <<"7">>>>,
            <<<<"x","x">>, <<"b","9">>, <<"p","a","y">>, <<>>, <<"7">>>>,
            <<<<"1","4","/","0","2","/","2","0","2","4">>, <<"b","1","0">>, <<"p","a","y">>>>>>])
    @@ ("noincome" :>
        [Name |-> "noincome", Openable |-> TRUE,
         A7 |-> <<"P"," ",":"," ","0","5","/","0","1","/","2","0","2","4"," ","~"," ","3","1","/","0","3","/","2","0","2","4">>,
         A9 |-> <<"N","o"," ",":"," ","1">>,
         A10 |-> <<"N","a","m","e"," ",":"," ","n">>,
         A11 |-> <<"C","c","y"," ",":"," ","L","A","K">>,
         Rows |-> <<<<<<"0","5","/","0","1","/","2","0","2","4">>, <<"c","1">>, <<"h","o","t"," ","s","o","u","p">>, <<>>, <<"3">>>>,
            <<<<"0","6","/","0","1","/","2","0","2","4">>, <<"c","2">>, <<"p","a","y">>, <<>>, <<"0">>>>,
            <<<<"0","7","/","0","1","/","2","0","2","4">>, <<"c","3">>, <<"r","e","n","t">>, <<>>, <<"x">>>>>>])
    @@ ("noaccount" :>
        [Name |-> "noaccount", Openable |-> TRUE,
         A7 |-> <<"P"," ",":"," ","0","5","/","0","1","/","2","0","2","4"," ","~"," ","3","1","/","0","3","/","2","0","2","4">>,
         A9 |-> <<"N","o">>,
         A10 |-> <<"N","a","m","e"," ",":"," ","n">>,
         A11 |-> <<"C","c","y"," ",":"," ","L","A","K">>,
         Rows |-> <<<<<<"0","5","/","0","1","/","2","0","2","4">>, <<"b","1">>, <<"P","a","y"," ","J","a","n">>, <<>>, <<"3">>>>>>])
    @@ ("noname" :>
        [Name |-> "noname", Openable |-> TRUE,
         A7 |-> <<"P"," ",":"," ","0","5","/","0","1","/","2","0","2","4"," ","~"," ","3","1","/","0","3","/","2","0","2","4">>,
         A9 |-> <<"N","o"," ",":"," ","1">>,
         A10 |-> <<"N","a","m","e"," ",":"," ">>,
         A11 |-> <<"C","c","y"," ",":"," ","L","A","K">>,
         Rows |-> <<<<<<"0","5","/","0","1","/","2","0","2","4">>, <<"b","1">>, <<"P","a","y"," ","J","a","n">>, <<>>, <<"3">>>>>>])
    @@ ("shortcurrency" :>
        [Name |-> "shortcurrency", Openable |-> TRUE,
         A7 |-> <<"P"," ",":"," ","0","5","/","0","1","/","2","0","2","4"," ","~"," ","3","1","/","0","3","/","2","0","2","4">>,
         A9 |-> <<"N","o"," ",":"," ","1">>,
         A10 |-> <<"N","a","m","e"," ",":"," ","n">>,
         A11 |-> <<"C","c","y"," ",":"," ","U","S">>,
         Rows |-> <<<<<<"0","5","/","0","1","/","2","0","2","4">>, <<"b","1">>, <<"P","a","y"," ","J","a","n">>, <<>>, <<"3">>>>>>])
    @@ ("unknowncurrency" :>
        [Name |-> "unknowncurrency", Openable |-> TRUE,
         A7 |-> <<"P"," ",":"," ","0","5","/","0","1","/","2","0","2","4"," ","~"," ","3","1","/","0","3","/","2","0","2","4">>,
         A9 |-> <<"N","o"," ",":"," ","1">>,
         A10 |-> <<"N","a","m","e"," ",":"," ","n">>,
         A11 |-> <<"C","c","y"," ",":"," ","X","Y","Z">>,
         Rows |-> <<<<<<"0","5","/","0","1","/","2","0","2","4">>, <<"b","1">>, <<"P","a","y"," ","J","a","n">>, <<>>, <<"3">>>>>>])
    @@ ("noperiodend" :>
        [Name |-> "noperiodend", Openable |-> TRUE,
         A7 |-> <<"P"," ",":"," ","0","5","/","0","1","/","2","0","2","4">>,
         A9 |-> <<"N","o"," ",":"," ","1">>,
         A10 |-> <<"N","a","m","e"," ",":"," ","n">>,
         A11 |-> <<"C","c","y"," ",":"," ","L","A","K">>,
         Rows |-> <<>>])
    @@ ("noperiodendnoaccount" :>
        [Name |-> "noperiodendnoaccount", Openable |-> TRUE,
         A7 |-> <<"P"," ",":"," ","0","5","/","0","1","/","2","0","2","4">>,
         A9 |-> <<"N","o">>,
         A10 |-> <<"N","a","m","e"," ",":"," ","n">>,
         A11 |-> <<"C","c","y"," ",":"," ","L","A","K">>,
         Rows |-> <<>>])
    @@ ("quarter" :>
        [Name |-> "quarter", Openable |-> TRUE,
         A7 |-> <<"P"," ",":"," ","0","5","/","0","1","/","2","0","2","4"," ","~"," ","3","0","/","0","4","/","2","0","2","4">>,
         A9 |-> <<"N","o"," ",":"," ","1">>,
         A10 |-> <<"N","a","m","e"," ",":"," ","n">>,
         A11 |-> <<"C","c","y"," ",":"," ","L","A","K">>,
         Rows |-> <<<<<<"0","5","/","0","1","/","2","0","2","4">>, <<"q","1">>, <<"p","a","y"," ","j","a","n">>, <<>>, <<"1","0">>>>,
            <<<<"0","5","/","0","2","/","2","0","2","4">>, <<"q","2">>, <<"p","a","y"," ","f","e","b">>, <<>>, <<"5">>>>,
            <<<<"2","0","/","0","2","/","2","0","2","4">>, <<"q","3">>, <<"p","a","y"," ","f","e","b">>, <<>>, <<"7">>>>,
            <<<<"0","5","/","0","3","/","2","0","2","4">>, <<"q","4">>, <<"p","a","y"," ","m","a","r">>, <<>>, <<"1","1">>>>,
            <<<<"0","6","/","0","3","/","2","0","2","4">>, <<"q","5">>, <<"o","t"," ","m","a","r">>, <<>>, <<"1","5">>>>,
            <<<<"0","7","/","0","3","/","2","0","2","4">>, <<"q","6">>, <<"f","u","e","l"," ","c","a","r","d">>, <<>>, <<"1","2","0">>>>>>])
    @@ ("onemonth" :>
        [Name |-> "onemonth", Openable |-> TRUE,
         A7 |-> <<"P"," ",":"," ","0","5","/","0","1","/","2","0","2","4"," ","~"," ","3","1","/","0","1","/","2","0","2","4">>,
         A9 |-> <<"N","o"," ",":"," ","1">>,
         A10 |-> <<"N","a","m","e"," ",":"," ","n">>,
         A11 |-> <<"C","c","y"," ",":"," ","U","S","D">>,
         Rows |-> <<<<<<"0","5","/","0","1","/","2","0","2","4">>, <<"m","1">>, <<"p","a","y"," ","j","a","n">>, <<>>, <<"3">>>>,
            <<<<"0","6","/","0","1","/","2","0","2","4">>, <<"m","2">>, <<"o","t"," ","j","a","n">>, <<>>, <<"2">>>>,
            <<<<"0","7","/","0","1","/","2","0","2","4">>, <<"m","3">>, <<"f","u","e","l"," ","c","a","r","d">>, <<>>, <<"1","2">>>>>>])
    @@ ("reversed" :>
        [Name |-> "reversed", Openable |-> TRUE,
         A7 |-> <<"P"," ",":"," ","3","1","/","0","3","/","2","0","2","4"," ","~"," ","0","5","/","0","1","/","2","0","2","4">>,
         A9 |-> <<"N","o"," ",":"," ","1">>,
         A10 |-> <<"N","a","m","e"," ",":"," ","n">>,
         A11 |-> <<"C","c","y"," ",":"," ","L","A","K">>,
         Rows |-> <<<<<<"0","5","/","0","1","/","2","0","2","4">>, <<"r","1">>, <<"p","a","y"," ","j","a","n">>, <<>>, <<"3">>>>,
            <<<<"0","6","/","0","2","/","2","0","2","4">>, <<"r","2">>, <<"o","t"," ","f","e","b">>, <<>>, <<"2">>>>,
            <<<<"0","7","/","0","2","/","2","0","2","4">>, <<"r","3">>, <<"f","u","e","l"," ","c","a","r","d">>, <<>>, <<"1","2">>>>>>])
    @@ ("twotitles" :>
        [Name |-> "twotitles", Openable |-> TRUE,
         A7 |-> <<"P"," ",":"," ","0","5","/","0","1","/","2","0","2","4"," ","~"," ","3","1","/","0","3","/","2","0","2","4">>,
         A9 |-> <<"N","o"," ",":"," ","1">>,
         A10 |-> <<"N","a","m","e"," ",":"," ","n">>,
         A11 |-> <<"C","c","y"," ",":"," ","L","A","K">>,
         Rows |-> <<<<<<"0","5","/","0","1","/","2","0","2","4">>, <<"t","1">>, <<"p","a","y"," ","j","a","n">>, <<>>, <<"1","0">>>>,
            <<<<"0","5","/","0","2","/","2","0","2","4">>, <<"t","2">>, <<"p","a","y"," ","f","e","b">>, <<>>, <<"1","0">>>>,
            <<<<"0","6","/","0","2","/","2","0","2","4">>, <<"t","3">>, <<"o","t"," ","f","e","b">>, <<>>, <<"4">>>>,
            <<<<"0","7","/","0","2","/","2","0","2","4">>, <<"t","4">>, <<"f","u","e","l"," ","c","a","r","d">>, <<>>, <<"1","2","0">>>>,
            <<<<"0","8","/","0","2","/","2","0","2","4">>, <<"t","5">>, <<"m","e","a","l"," ","p","l","a","n">>, <<>>, <<"6","0">>>>,
            <<<<"0","9","/","0","3","/","2","0","2","4">>, <<"t","6">>, <<"f","u","e","l"," ","t","o","p">>, <<>>, <<"1","2","0">>>>,
            <<<<"1","0","/","0","3","/","2","0","2","4">>, <<"t","7">>, <<"p","a","y"," ","f","u","e","l">>, <<>>, <<"8">>>>>>])
    @@ ("unreadable" :>
        [Name |-> "unreadable", Openable |-> FALSE,
         A7 |-> <<>>,
         A9 |-> <<>>,
         A10 |-> <<>>,
         A11 |-> <<>>,
         Rows |-> <<>>])

\* what calculateIncomeFromStatementFile reads from each stored file
Decoded ==
    [n \in DOMAIN StatementFiles |->
        decodeStatement(StatementFiles[n], Wordlists, Currencies)]

(***************************************************************************)
(* requests                                                                *)
(***************************************************************************)
Usernames == {"u1", "u2"}

NumA == <<"A">>

NumAB == <<"A", "B">>

\* business numbers; NumA is a substring of NumAB
Numbers == {NumA, NumAB}

Products == {ProductSA, ProductPL}

TxE1 == [Amount |-> NewFromInt(2), Date |-> [y |-> 2024, m |-> 1, d |-> 5], BillNumber |-> <<"e","1">>, Noted |-> <<"p","a","y">>]

TxE2 == [Amount |-> NewFromInt(4), Date |-> [y |-> 2024, m |-> 1, d |-> 6], BillNumber |-> <<"e","2">>, Noted |-> <<"p","a","y">>]

TxE3 == [Amount |-> NewFromInt(7), Date |-> [y |-> 2024, m |-> 2, d |-> 7], BillNumber |-> <<"e","3">>, Noted |-> <<"f","u","e","l">>]

TxE4 == [Amount |-> NewFromInt(5), Date |-> [y |-> 2024, m |-> 3, d |-> 8], BillNumber |-> <<"e","4">>, Noted |-> <<"o","t">>]

\* edited breakdowns a caller may send to ReCalculateIncome
\* (RecalculateReq without its Number)
EditSalaryOnly ==
    [BasicSalaryFromInterview |-> Zero,
     MonthlySalaries |->
        << [Month |-> <<"January", 2024>>, TimesReceived |-> NewFromInt(1),
            Transactions |-> <<TxE1>>, Total |-> NewFromInt(2)] >>,
     Allowances |-> <<>>,
     Commissions |-> <<>>]

EditAll ==
    [BasicSalaryFromInterview |-> NewFromInt(1),
     MonthlySalaries |->
        << [Month |-> <<"February", 2024>>, TimesReceived |-> NewFromInt(1),
            Transactions |-> <<TxE2>>, Total |-> NewFromInt(4)],
           [Month |-> <<"January", 2024>>, TimesReceived |-> NewFromInt(2),
            Transactions |-> <<TxE1, TxE2>>, Total |-> NewFromInt(6)] >>,
     Allowances |->
        << [Title |-> <<"f","u","e","l">>, Months |-> NewFromInt(3), MonthlyAverage |-> Zero,
            Transactions |-> <<TxE3>>, Total |-> NewFromInt(7)] >>,
     Commissions |->
        << [Month |-> <<"March", 2024>>, Transactions |-> <<TxE4>>,
            Total |-> NewFromInt(5)] >>]

\* an allowance bucket whose months divisor was left out
EditZeroMonths ==
    [BasicSalaryFromInterview |-> Zero,
     MonthlySalaries |-> <<>>,
     Allowances |->
        << [Title |-> <<"f","u","e","l">>, Months |-> Zero, MonthlyAverage |-> Zero,
            Transactions |-> <<TxE3>>, Total |-> NewFromInt(7)] >>,
     Commissions |-> <<>>]

EditedBreakdowns == {EditSalaryOnly, EditAll, EditZeroMonths}

RecalculateReq(number, e) ==
    [Number |-> number,
     BasicSalaryFromInterview |-> e.BasicSalaryFromInterview,
     MonthlySalaries |-> e.MonthlySalaries,
     Allowances |-> e.Allowances,
     Commissions |-> e.Commissions]

\* the stored statement with allowances of two titles
AllowanceFiles == {"twotitles"}

\* the stored statements that differ from "good" in their period and amounts
PeriodFiles == {"quarter", "onemonth", "reversed"}

\* the statement file names a caller may send where the decoding of the
\* sheet is the subject: the other stored files, an unknown name and the
\* empty name
RequestFiles ==
    (DOMAIN StatementFiles \ (PeriodFiles \cup AllowanceFiles))
        \cup {"unknown", ""}

\* the requests sent where the statement's content is not the subject: the
\* valid ones for the statement "good", and one request for each reason
\* CalculateIncome has to refuse a request before it opens a statement
LifecycleReqs ==
    [Number : Numbers, Product : {ProductPL}, StatementFileName : {"good"}]
    \cup { [Number |-> <<>>, Product |-> ProductPL, StatementFileName |-> "good"],
           [Number |-> NumA, Product |-> ProductUnSpecified,
            StatementFileName |-> "good"],
           [Number |-> NumA, Product |-> ProductPL, StatementFileName |-> ""],
           [Number |-> NumA, Product |-> ProductPL,
            StatementFileName |-> "unknown"] }

\* the callers that create calculations
Creators == {"u1"}

\* CalculateReq.Validate
ValidateCalculateReq(r) ==
    /\ r.Number # <<>>
    /\ r.Product # ProductUnSpecified
    /\ r.StatementFileName # ""

(***************************************************************************)
(* persistence: the table statement_file_analysis as a sequence of rows    *)
(***************************************************************************)
\* updated_by and updated_at are not among the inserted columns: a new row
\* holds the column defaults
DefaultUpdatedBy == ""

DefaultUpdatedAt == 0

\* the columns UPDATE sets: all but id, created_by, created_at
updatedRow(row, in) ==
    [in EXCEPT !.ID = row.ID, !.CreatedBy = row.CreatedBy,
               !.CreatedAt = row.CreatedAt]

\* saveCalculationIncome: UPDATE ... WHERE number = in.Number, and INSERT
\* when no row was affected; one transaction.  Yields the table and the
\* calculation, whose ID the insert sets.
saveCalculationIncome(rows, in) ==
    IF \E i \in DOMAIN rows : rows[i].Number = in.Number
    THEN [db |-> [i \in DOMAIN rows |->
                    IF rows[i].Number = in.Number
                    THEN updatedRow(rows[i], in) ELSE rows[i]],
          in |-> in]
    ELSE [db |-> Append(rows, [in EXCEPT !.ID = Len(rows) + 1,
                                         !.UpdatedBy = DefaultUpdatedBy,
                                         !.UpdatedAt = DefaultUpdatedAt]),
          in |-> [in EXCEPT !.ID = Len(rows) + 1]]

\* an existence check that never finds a row
isCalculationExistsNever(rows, number) == FALSE

\* isCalculationExists: SELECT TOP 1 number ... WHERE number = @p
isCalculationExists(rows, number) ==
    \E i \in DOMAIN rows : rows[i].Number = number /\ rows[i].Number # <<>>

\* CalculationQuery.ToSQL for a query by ID and Number:
\* id = q.ID when set, number LIKE '%' + q.Number + '%' when set
queryMatches(row, q) ==
    /\ q.ID # 0 => row.ID = q.ID
    /\ q.Number # <<>> => Contains(row.Number, q.Number)

\* the rows, among those at the positions m, created last
latestOf(rows, m) ==
    { rows[i] : i \in {j \in m : \A k \in m : rows[k].CreatedAt <= rows[j].CreatedAt} }

getCalculation(rows, q) ==
    IF q.ID = 0 /\ q.Number = <<>> THEN {}
    ELSE latestOf(rows, {i \in DOMAIN rows : queryMatches(rows[i], q)})

(***************************************************************************)
(* user accounts                                                           *)
(***************************************************************************)
\* the three values of the type status that a user's Status takes; only their
\* being distinct matters
StatusEnabled == "ENABLED"

StatusDisabled == "DISABLED"

StatusClosed == "CLOSED"

\* bcrypt.GenerateFromPassword: the stored hash is not the password
hashPassword(password) == <<"bcrypt", password>>

\* bcrypt.CompareHashAndPassword(u.hashedPassword, password) == nil
ComparePassword(u, password) == u.hashedPassword = hashPassword(password)

EmailAdmin == <<"a", "@", "x">>

EmailClerk == <<"c", "@", "x">>

\* a row of the user table as newUser makes it: the username is the email,
\* the status is Enabled
UserRow(id, email, isAdmin, password) ==
    [ID |-> id, Email |-> email, Username |-> email, IsAdmin |-> isAdmin,
     Status |-> StatusEnabled, hashedPassword |-> hashPassword(password),
     updatedBy |-> EmailAdmin, CreatedAt |-> 0, UpdatedAt |-> 0]

\* the user table at the start: an administrator and a clerk
UserRows ==
    <<UserRow("id1", EmailAdmin, TRUE, "pw1"),
      UserRow("id2", EmailClerk, FALSE, "pw2")>>

\* the outcome of a method on a user: its error and the user as it leaves it
UserOutcome(err, u) == [err |-> err, user |-> u]

\* the three assignments Disable, Enable and Close share
statusSet(u, status, by, now) ==
    [u EXCEPT !.Status = status, !.updatedBy = by, !.UpdatedAt = now]

Disable(u, by, now) ==
    IF u.Status = StatusDisabled THEN UserOutcome("none", u)
    ELSE IF u.Status = StatusClosed THEN UserOutcome("FailedPrecondition", u)
    ELSE UserOutcome("none", statusSet(u, StatusDisabled, by, now))

Enable(u, by, now) ==
    IF u.Status = StatusEnabled THEN UserOutcome("none", u)
    ELSE IF u.Status = StatusClosed THEN UserOutcome("FailedPrecondition", u)
    ELSE UserOutcome("none", statusSet(u, StatusEnabled, by, now))

Close(u, by, now) ==
    IF u.Status = StatusClosed THEN UserOutcome("none", u)
    ELSE UserOutcome("none", statusSet(u, StatusClosed, by, now))

IsEnabled(u) == u.Status = StatusEnabled

toClaims(u) ==
    [IsAdmin |-> u.IsAdmin, ID |-> u.ID, Email |-> u.Email,
     Username |-> u.Username]

\* UserQuery.ToSql: an empty field of the query filters nothing
userMatches(u, q) ==
    /\ q.ID = "" \/ u.ID = q.ID
    /\ q.Email = <<>> \/ u.Email = q.Email

\* getUser: TOP 1 of the rows the query selects, ORDER BY created_at DESC; the
\* set is empty for ErrUserNotFound and holds every row the database may
\* put first otherwise
getUser(rows, q) ==
    latestOf(rows, {i \in DOMAIN rows : userMatches(rows[i], q)})

UserByID(id) == [ID |-> id, Email |-> <<>>]

UserByEmail(email) == [ID |-> "", Email |-> email]

\* updateUser: UPDATE "user" SET ... WHERE id = in.ID
updateUser(rows, in) ==
    [i \in DOMAIN rows |-> IF rows[i].ID = in.ID THEN in ELSE rows[i]]

\* the lifetimes genToken gives the two tokens, in clock readings: an hour
\* and seven days
TokenLife == [Access |-> 1, Refresh |-> 2]

\* a PASETO v4 local token: what was encrypted, and under which key
sealedToken(key, u, now, life) ==
    [key |-> key, sub |-> u.Username, profile |-> toClaims(u), nbf |-> now,
     exp |-> now + life]

genToken(u, now) ==
    [Access |-> sealedToken("aKey", u, now, TokenLife.Access),
     Refresh |-> sealedToken("rKey", u, now, TokenLife.Refresh)]

\* parser.ParseV4Local(s.rKey, ...) under the rules NotExpired and ValidAt(now)
parseRefresh(t, now) == t.key = "rKey" /\ t.nbf <= now /\ now <= t.exp

\* mail.ParseAddress, as far as the fixture's addresses go: a local part, an
\* at sign and a domain
parseAddress(email) == \E i \in 2..(Len(email) - 1) : email[i] = "@"

\* LoginReq.Validate
ValidateLoginReq(r) ==
    IF r.Email = <<>> \/ ~parseAddress(r.Email) \/ r.Password = ""
    THEN "InvalidArgument" ELSE "none"

(***************************************************************************)
(* state                                                                   *)
(***************************************************************************)
VARIABLES
    db,      \* the rows of statement_file_analysis, in insertion order
    clock,   \* the number of time.Now() readings so far
    resp,    \* the outcome of the handler that returned last
    dbPre,   \* the table as it was when that handler's last step began
    proc,    \* per request in flight: its position and its local variables
    args,    \* the inputs of the pure function under check
    ret,     \* the sequence of its results
    users,   \* the rows of the user table, in insertion order
    tokens   \* the token pairs genToken has handed out

vars == <<db, clock, resp, dbPre, proc, args, ret, users, tokens>>

MaxClock == 4

Procs == {1, 2}

Idle == [pc |-> "idle", by |-> "", in |-> "nil", calc |-> "nil"]

NoResp ==
    [op |-> "none", req |-> [Number |-> <<>>], err |-> "none", calc |-> "nil",
     opened |-> FALSE]

Init ==
    /\ db = <<>>
    /\ clock = 0
    /\ resp = NoResp
    /\ dbPre = <<>>
    /\ proc = [p \in Procs |-> Idle]
    /\ args = <<>>
    /\ ret = <<>>
    /\ users = UserRows
    /\ tokens = {}

\* a handler returns: req is its request, err is "none" or the error, calc
\* the calculation it returns, opened whether it went as far as opening the
\* statement
Return(op, req, err, calc, opened, newdb, newclock) ==
    /\ resp' = [op |-> op, req |-> req, err |-> err, calc |-> calc,
                opened |-> opened]
    /\ dbPre' = db
    /\ db' = newdb
    /\ clock' = newclock

ByNumber(number) == [ID |-> 0, Number |-> number]

\* the error CalculateIncome makes of a failure of
\* calculateIncomeFromStatementFile: FailedPrecondition "The statement file
\* is not valid"; a panic is not an error value
statementFailure(e) == IF e = "panic" THEN "panic" ELSE "InvalidStatement"

(***************************************************************************)
(* the service operations, one request at a time                           *)
(***************************************************************************)
\* the checks of CalculateIncome that precede the statement: Validate and
\* isCalculationExists
calculatePrecheck(rows, in) ==
    IF ~ValidateCalculateReq(in) THEN "InvalidArgument"
    ELSE IF isCalculationExists(rows, in.Number) THEN "AlreadyExists"
    ELSE "none"

\* the return of a handler that has just called saveCalculationIncome
Saved(op, req, opened, sv, newclock) ==
    Return(op, req, "none", sv.in, opened, sv.db, newclock)

\* CalculateIncome once the statement file was found: d is what
\* calculateIncomeFromStatementFile reads from it
calculateFromStatement(by, in, statement, d) ==
    IF d.err # "none"
    THEN Return("CalculateIncome", in, statementFailure(d.err), "nil", TRUE,
                db, clock + 1)
    ELSE \E order \in allowanceOrders(d.incomes) :
            Saved("CalculateIncome", in, TRUE,
                  saveCalculationIncome(db,
                      calculateIncomeFromStatementFile(by, in, statement, d,
                                                       clock + 1, order)),
                  clock + 1)

\* gRPC codes: InvalidArgument (Validate, unknown statement file),
\* AlreadyExists, FailedPrecondition ("InvalidStatement")
CalculateIncome(by, in) ==
    /\ \A p \in Procs : proc[p].pc = "idle"
    /\ UNCHANGED <<proc, args, ret, users, tokens>>
    /\ \/ /\ calculatePrecheck(db, in) # "none"
          /\ Return("CalculateIncome", in, calculatePrecheck(db, in), "nil",
                    FALSE, db, clock)
       \/ /\ calculatePrecheck(db, in) = "none"
          /\ in.StatementFileName \notin DOMAIN StatementFiles
          /\ Return("CalculateIncome", in, "InvalidArgument", "nil", FALSE, db, clock)
       \/ /\ calculatePrecheck(db, in) = "none"
          /\ in.StatementFileName \in DOMAIN StatementFiles
          /\ clock < MaxClock
          /\ calculateFromStatement(by, in, StatementFiles[in.StatementFileName],
                                    Decoded[in.StatementFileName])

\* PermissionDenied when no row is found
GetCalculationByNumber(number) ==
    /\ \A p \in Procs : proc[p].pc = "idle"
    /\ UNCHANGED <<proc, args, ret, users, tokens>>
    /\ \/ /\ getCalculation(db, ByNumber(number)) = {}
          /\ Return("GetCalculationByNumber", ByNumber(number),
                    "PermissionDenied", "nil", FALSE, db, clock)
       \/ \E c \in getCalculation(db, ByNumber(number)) :
             Return("GetCalculationByNumber", ByNumber(number), "none", c,
                    FALSE, db, clock)

\* ReCalculateIncome on the calculation c that getCalculation returned
reCalculateFound(by, in, c) ==
    \/ /\ IsCompleted(c)
       /\ Return("ReCalculateIncome", in, "AlreadyCompleted", "nil", FALSE,
                 db, clock)
    \/ /\ ~IsCompleted(c)
       /\ clock < MaxClock
       /\ \E order \in reCalculateOrders(c, in) :
            IF reCalculatePanics(c, in, order)
            THEN Return("ReCalculateIncome", in, "panic", "nil", FALSE, db,
                        clock + 1)
            ELSE Saved("ReCalculateIncome", in, FALSE,
                       saveCalculationIncome(db,
                           ReCalculate(c, by, in, clock + 1, order)),
                       clock + 1)

\* FailedPrecondition ("AlreadyCompleted") on a completed calculation
ReCalculateIncome(by, in) ==
    /\ \A p \in Procs : proc[p].pc = "idle"
    /\ UNCHANGED <<proc, args, ret, users, tokens>>
    /\ \/ /\ getCalculation(db, ByNumber(in.Number)) = {}
          /\ Return("ReCalculateIncome", in, "PermissionDenied", "nil", FALSE,
                    db, clock)
       \/ \E c \in getCalculation(db, ByNumber(in.Number)) :
             reCalculateFound(by, in, c)

\* CompleteCalculation on the calculation c that getCalculation returned
completeFound(by, number, c) ==
    \/ /\ IsCompleted(c)
       /\ Return("CompleteCalculation", ByNumber(number), "none", c, FALSE,
                 db, clock)
    \/ /\ ~IsCompleted(c)
       /\ clock < MaxClock
       /\ Saved("CompleteCalculation", ByNumber(number), FALSE,
                saveCalculationIncome(db, Complete(c, by, clock + 1)), clock + 1)

CompleteCalculation(by, number) ==
    /\ \A p \in Procs : proc[p].pc = "idle"
    /\ UNCHANGED <<proc, args, ret, users, tokens>>
    /\ \/ /\ getCalculation(db, ByNumber(number)) = {}
          /\ Return("CompleteCalculation", ByNumber(number),
                    "PermissionDenied", "nil", FALSE, db, clock)
       \/ \E c \in getCalculation(db, ByNumber(number)) :
             completeFound(by, number, c)

Next ==
    \/ \E by \in Creators, in \in LifecycleReqs : CalculateIncome(by, in)
    \/ \E n \in Numbers \cup {<<>>} : GetCalculationByNumber(n)
    \/ \E by \in Usernames, n \in Numbers \cup {<<>>}, e \in EditedBreakdowns :
            ReCalculateIncome(by, RecalculateReq(n, e))
    \/ \E by \in Usernames, n \in Numbers \cup {<<>>} : CompleteCalculation(by, n)

Spec == Init /\ [][Next]_vars

\* the requests over every statement file name a caller may send
StatementReqs ==
    [Number : Numbers, Product : Products, StatementFileName : RequestFiles]

\* CalculateIncome alone, over every statement file
NextStatement ==
    \E by \in Creators, in \in StatementReqs : CalculateIncome(by, in)

SpecStatement == Init /\ [][NextStatement]_vars

(***************************************************************************)
(* the formula engine: CalculateIncome over statements of several periods  *)
(* and ReCalculateIncome over edited breakdowns, for every product         *)
(***************************************************************************)
FormulaFiles == {"good"} \cup PeriodFiles \cup AllowanceFiles

FormulaProducts == {ProductSA, ProductPL, ProductSF}

FormulaReqs ==
    [Number : {NumA}, Product : FormulaProducts, StatementFileName : FormulaFiles]

TxF1 == [Amount |-> NewFromInt(10), Date |-> [y |-> 2024, m |-> 1, d |-> 5], BillNumber |-> <<"f","1">>, Noted |-> <<"p","a","y">>]

TxF2 == [Amount |-> NewFromInt(20), Date |-> [y |-> 2024, m |-> 2, d |-> 5], BillNumber |-> <<"f","2">>, Noted |-> <<"p","a","y">>]

TxF3 == [Amount |-> NewFromInt(30), Date |-> [y |-> 2024, m |-> 2, d |-> 6], BillNumber |-> <<"f","3">>, Noted |-> <<"p","a","y">>]

TxF4 == [Amount |-> NewFromInt(10), Date |-> [y |-> 2024, m |-> 2, d |-> 7], BillNumber |-> <<"f","4">>, Noted |-> <<"o","t">>]

TxF5 == [Amount |-> NewFromInt(120), Date |-> [y |-> 2024, m |-> 2, d |-> 8], BillNumber |-> <<"f","5">>, Noted |-> <<"f","u","e","l">>]

\* salaries of 10 in January and 20 + 30 in February, a commission of 10
\* and a fuel allowance of 120 over 12 months, with the interview salary s
EditWithInterview(s) ==
    [BasicSalaryFromInterview |-> s,
     MonthlySalaries |->
        << [Month |-> <<"January", 2024>>, TimesReceived |-> NewFromInt(1),
            Transactions |-> <<TxF1>>, Total |-> NewFromInt(10)],
           [Month |-> <<"February", 2024>>, TimesReceived |-> NewFromInt(2),
            Transactions |-> <<TxF2, TxF3>>, Total |-> NewFromInt(50)] >>,
     Allowances |->
        << [Title |-> <<"f","u","e","l">>, Months |-> NewFromInt(12),
            MonthlyAverage |-> Zero, Transactions |-> <<TxF5>>,
            Total |-> NewFromInt(120)] >>,
     Commissions |->
        << [Month |-> <<"February", 2024>>, Transactions |-> <<TxF4>>,
            Total |-> NewFromInt(10)] >>]

TxF6 == [Amount |-> NewFromInt(30), Date |-> [y |-> 2024, m |-> 3, d |-> 9], BillNumber |-> <<"f","6">>, Noted |-> <<"m","e","a","l">>]

\* a fuel allowance of 120 over 12 months and a meal allowance of 30 over
\* 6 months, with a salary of 10
EditTwoAllowances ==
    [BasicSalaryFromInterview |-> Zero,
     MonthlySalaries |->
        << [Month |-> <<"January", 2024>>, TimesReceived |-> NewFromInt(1),
            Transactions |-> <<TxF1>>, Total |-> NewFromInt(10)] >>,
     Allowances |->
        << [Title |-> <<"f","u","e","l">>, Months |-> NewFromInt(12),
            MonthlyAverage |-> Zero, Transactions |-> <<TxF5>>,
            Total |-> NewFromInt(120)],
           [Title |-> <<"m","e","a","l">>, Months |-> NewFromInt(6),
            MonthlyAverage |-> Zero, Transactions |-> <<TxF6>>,
            Total |-> NewFromInt(30)] >>,
     Commissions |-> <<>>]

\* a salary of 10 sent with the bucket total 99 and a commission of 10
\* sent with the bucket total 77
EditWrongTotals ==
    [BasicSalaryFromInterview |-> Zero,
     MonthlySalaries |->
        << [Month |-> <<"January", 2024>>, TimesReceived |-> NewFromInt(1),
            Transactions |-> <<TxF1>>, Total |-> NewFromInt(99)] >>,
     Allowances |-> <<>>,
     Commissions |->
        << [Month |-> <<"February", 2024>>, Transactions |-> <<TxF4>>,
            Total |-> NewFromInt(77)] >>]

\* the interview salaries a caller declares: none, one below and one above
\* the basic salary of the edited breakdowns
InterviewSalaries == {Zero, NewFromInt(9), NewFromInt(11)}

FormulaEdits ==
    {EditWithInterview(s) : s \in InterviewSalaries}
        \cup {EditSalaryOnly, EditZeroMonths, EditTwoAllowances,
              EditWrongTotals}

NextFormula ==
    \/ \E by \in Creators, in \in FormulaReqs : CalculateIncome(by, in)
    \/ \E by \in Creators, e \in FormulaEdits :
            ReCalculateIncome(by, RecalculateReq(NumA, e))

SpecFormula == Init /\ [][NextFormula]_vars

(***************************************************************************)
(* the transactions of a computed calculation, listed by category and month *)
(***************************************************************************)
\* TransactionReq.Validate; the zero month is <<>>
ValidateTransactionReq(r) ==
    /\ r.Number # <<>>
    /\ r.Month # <<>>
    /\ r.Category # SourceUnSpecified

\* ListIncomeTransactionsByNumber on the calculation c that getCalculation
\* returned: PermissionDenied for an unknown statement file, an internal
\* error for one that cannot be opened
listFound(in, c) ==
    IF c.StatementFileName \notin DOMAIN StatementFiles
    THEN Return("ListIncomeTransactionsByNumber", in, "PermissionDenied",
                "nil", FALSE, db, clock)
    ELSE IF ~StatementFiles[c.StatementFileName].Openable
    THEN Return("ListIncomeTransactionsByNumber", in, "Internal", "nil",
                TRUE, db, clock)
    ELSE Return("ListIncomeTransactionsByNumber", in, "none",
                listTransactionFromStatementFile(in,
                    wordlistsOfCategory(Wordlists, in.Category),
                    StatementFiles[c.StatementFileName]),
                TRUE, db, clock)

\* resp.calc holds the transactions returned
ListIncomeTransactionsByNumber(in) ==
    /\ \A p \in Procs : proc[p].pc = "idle"
    /\ UNCHANGED <<proc, args, ret, users, tokens>>
    /\ \/ /\ ~ValidateTransactionReq(in)
          /\ Return("ListIncomeTransactionsByNumber", in, "InvalidArgument",
                    "nil", FALSE, db, clock)
       \/ /\ ValidateTransactionReq(in)
          /\ getCalculation(db, ByNumber(in.Number)) = {}
          /\ Return("ListIncomeTransactionsByNumber", in, "PermissionDenied",
                    "nil", FALSE, db, clock)
       \/ /\ ValidateTransactionReq(in)
          /\ \E c \in getCalculation(db, ByNumber(in.Number)) :
                listFound(in, c)

ListMonths == {<<"February", 2024>>, <<"March", 2024>>, <<>>}

ListCategories ==
    {SourceSalary, SourceAllowance, SourceCommission, SourceUnSpecified}

ListReqs == [Number : {NumA, <<>>}, Category : ListCategories, Month : ListMonths]

NextList ==
    \/ \E by \in Creators, in \in FormulaReqs : CalculateIncome(by, in)
    \/ \E in \in ListReqs : ListIncomeTransactionsByNumber(in)

SpecList == Init /\ [][NextList]_vars

(***************************************************************************)
(* Compute, then Recalculate with the buckets the calculation holds         *)
(***************************************************************************)
\* the salary, allowance and commission buckets of a calculation, as a
\* caller sends them back
OwnBuckets(c) ==
    [BasicSalaryFromInterview |-> Zero,
     MonthlySalaries |-> c.SalaryBreakdown.MonthlySalaries,
     Allowances |-> c.AllowanceBreakdown.Allowances,
     Commissions |-> c.CommissionBreakdown.Commissions]

NextRefeed ==
    \/ \E by \in Usernames, in \in FormulaReqs : CalculateIncome(by, in)
    \/ \E by \in Usernames, i \in DOMAIN db :
            ReCalculateIncome(by, RecalculateReq(db[i].Number, OwnBuckets(db[i])))

SpecRefeed == Init /\ [][NextRefeed]_vars

(***************************************************************************)
(* the service operations as concurrent requests: each handler is the      *)
(* sequence of its database statements, and the statements of two requests *)
(* interleave.  saveCalculationIncome runs in one transaction and is one   *)
(* step.                                                                   *)
(***************************************************************************)
\* the requests two concurrent callers send
ConcurrentNumbers == {NumA}

ConcurrentReqs ==
    [Number : ConcurrentNumbers, Product : Products, StatementFileName : {"good"}]

ConcurrentEdits == {EditSalaryOnly}

\* a request in flight at position pc, with the request in and the
\* calculation it holds in memory
InFlight(pc, by, in, calc) == [pc |-> pc, by |-> by, in |-> in, calc |-> calc]

\* a handler returns without a write
ReturnOf(p, op, req, err, calc, opened) ==
    /\ Return(op, req, err, calc, opened, db, clock)
    /\ proc' = [proc EXCEPT ![p] = Idle]

\* the last step of a handler: saveCalculationIncome and the return
SaveOf(p, op, opened, sv) ==
    /\ Saved(op, proc[p].in, opened, sv, clock)
    /\ proc' = [proc EXCEPT ![p] = Idle]

\* CalculateIncome up to the existence check
CalcCheck(p, by, in) ==
    /\ proc[p].pc = "idle"
    /\ UNCHANGED <<args, ret, users, tokens>>
    /\ \/ /\ calculatePrecheck(db, in) # "none"
          /\ ReturnOf(p, "CalculateIncome", in, calculatePrecheck(db, in),
                      "nil", FALSE)
       \/ /\ calculatePrecheck(db, in) = "none"
          /\ proc' = [proc EXCEPT ![p] = InFlight("calc-compute", by, in, "nil")]
          /\ UNCHANGED <<db, clock, resp, dbPre>>

\* CalculateIncome from getStatementFileByName to the end of
\* calculateIncomeFromStatementFile
CalcCompute(p) ==
    /\ proc[p].pc = "calc-compute"
    /\ clock < MaxClock
    /\ UNCHANGED <<db, resp, dbPre, args, ret, users, tokens>>
    /\ clock' = clock + 1
    /\ \E order \in allowanceOrders(Decoded[proc[p].in.StatementFileName].incomes) :
          proc' = [proc EXCEPT ![p] =
                    InFlight("calc-save", proc[p].by, proc[p].in,
                        calculateIncomeFromStatementFile(proc[p].by, proc[p].in,
                            StatementFiles[proc[p].in.StatementFileName],
                            Decoded[proc[p].in.StatementFileName],
                            clock + 1, order))]

CalcSave(p) ==
    /\ proc[p].pc = "calc-save"
    /\ UNCHANGED <<args, ret, users, tokens>>
    /\ SaveOf(p, "CalculateIncome", TRUE, saveCalculationIncome(db, proc[p].calc))

\* what ReCalculateIncome does with the calculation c that getCalculation
\* returned: Calculation.ReCalculate in memory
RecalcFound(p, by, in, c) ==
    \/ /\ IsCompleted(c)
       /\ ReturnOf(p, "ReCalculateIncome", in, "AlreadyCompleted", "nil", FALSE)
    \/ /\ ~IsCompleted(c)
       /\ clock < MaxClock
       /\ \E order \in reCalculateOrders(c, in) :
            IF reCalculatePanics(c, in, order)
            THEN /\ Return("ReCalculateIncome", in, "panic", "nil", FALSE,
                           db, clock + 1)
                 /\ proc' = [proc EXCEPT ![p] = Idle]
            ELSE /\ proc' = [proc EXCEPT ![p] =
                        InFlight("recalc-save", by, in,
                                 ReCalculate(c, by, in, clock + 1, order))]
                 /\ clock' = clock + 1
                 /\ UNCHANGED <<db, resp, dbPre>>

\* ReCalculateIncome up to Calculation.ReCalculate
RecalcRead(p, by, in) ==
    /\ proc[p].pc = "idle"
    /\ UNCHANGED <<args, ret, users, tokens>>
    /\ \/ /\ getCalculation(db, ByNumber(in.Number)) = {}
          /\ ReturnOf(p, "ReCalculateIncome", in, "PermissionDenied", "nil", FALSE)
       \/ \E c \in getCalculation(db, ByNumber(in.Number)) : RecalcFound(p, by, in, c)

RecalcSave(p) ==
    /\ proc[p].pc = "recalc-save"
    /\ UNCHANGED <<args, ret, users, tokens>>
    /\ SaveOf(p, "ReCalculateIncome", FALSE, saveCalculationIncome(db, proc[p].calc))

\* what CompleteCalculation does with the calculation c that getCalculation
\* returned: Calculation.Complete in memory
CompleteFound(p, by, number, c) ==
    \/ /\ IsCompleted(c)
       /\ ReturnOf(p, "CompleteCalculation", ByNumber(number), "none", c, FALSE)
    \/ /\ ~IsCompleted(c)
       /\ clock < MaxClock
       /\ proc' = [proc EXCEPT ![p] =
                    InFlight("complete-save", by, ByNumber(number),
                             Complete(c, by, clock + 1))]
       /\ clock' = clock + 1
       /\ UNCHANGED <<db, resp, dbPre>>

\* CompleteCalculation up to Calculation.Complete
CompleteRead(p, by, number) ==
    /\ proc[p].pc = "idle"
    /\ UNCHANGED <<args, ret, users, tokens>>
    /\ \/ /\ getCalculation(db, ByNumber(number)) = {}
          /\ ReturnOf(p, "CompleteCalculation", ByNumber(number),
                      "PermissionDenied", "nil", FALSE)
       \/ \E c \in getCalculation(db, ByNumber(number)) :
            CompleteFound(p, by, number, c)

CompleteSave(p) ==
    /\ proc[p].pc = "complete-save"
    /\ UNCHANGED <<args, ret, users, tokens>>
    /\ SaveOf(p, "CompleteCalculation", FALSE,
              saveCalculationIncome(db, proc[p].calc))

NextConcurrent ==
    \/ \E p \in Procs, by \in Usernames, in \in ConcurrentReqs : CalcCheck(p, by, in)
    \/ \E p \in Procs : CalcCompute(p)
    \/ \E p \in Procs : CalcSave(p)
    \/ \E p \in Procs, by \in Usernames, n \in ConcurrentNumbers,
          e \in ConcurrentEdits : RecalcRead(p, by, RecalculateReq(n, e))
    \/ \E p \in Procs : RecalcSave(p)
    \/ \E p \in Procs, by \in Usernames, n \in ConcurrentNumbers :
            CompleteRead(p, by, n)
    \/ \E p \in Procs : CompleteSave(p)

SpecConcurrent == Init /\ [][NextConcurrent]_vars

(***************************************************************************)
(* the classifier on its own: a memo and an ordered wordlist are drawn,    *)
(* matchWordlists is applied                                               *)
(***************************************************************************)
MaxWordlistLen == 2

Memos ==
    { <<"p","a","y"," ","r","e","c","e","i","v","e","d">>,
      <<" ","P","A","Y"," ">>,
      <<"h","o","t"," ","s","o","u","p">>,
      <<"O","T"," ","|"," ","b","o","n","u","s">>,
      <<"p","a","y","r","o","l","l"," ","f","u","e","l">>,
      <<"a","ຂ","ກ","b"," ","1">>,
      <<>> }

ClassifierWords ==
    { <<"p","a","y">>, <<"o","t">>, <<" ","F","u","e","l"," ">>,
      <<"p","a","y","r","o","l","l">>, <<"ຂ","ກ">> }

ClassifierEntries ==
    [word : ClassifierWords,
     category : {SourceSalary, SourceAllowance, SourceCommission}]

\* the ordered wordlists of at most MaxWordlistLen entries
OrderedWordlists ==
    UNION { [1..n -> ClassifierEntries] : n \in 0..MaxWordlistLen }

InitClassify ==
    /\ db = <<>>
    /\ clock = 0
    /\ resp = NoResp
    /\ dbPre = <<>>
    /\ proc = [p \in Procs |-> Idle]
    /\ args \in [memo : Memos, wordlists : OrderedWordlists]
    /\ ret = <<>>
    /\ users = UserRows
    /\ tokens = {}

\* ret holds the results returned so far
Classify ==
    /\ ret = <<>>
    /\ ret' = <<matchWordlists(args.memo, args.wordlists)>>
    /\ UNCHANGED <<db, clock, resp, dbPre, proc, args, users, tokens>>

NextClassify == Classify

SpecClassify == InitClassify /\ [][NextClassify]_vars

(***************************************************************************)
(* the account handlers of Auth                                            *)
(***************************************************************************)
\* the claims ClaimsFromContext finds: the administrator's and the clerk's
Callers == {toClaims(UserRows[1]), toClaims(UserRows[2])}

UserIDs == {"id1", "id2", "id9"}

LoginEmails == {EmailAdmin, EmailClerk, <<"n", "@", "x">>, <<"c", "x">>, <<>>}

LoginPasswords == {"pw1", "pw2", ""}

LoginReqs == [Email : LoginEmails, Password : LoginPasswords]

\* what a client may send as a refresh token: nothing, or either half of a
\* pair it was handed
HeldTokens == {t.Refresh : t \in tokens} \cup {t.Access : t \in tokens}

EmptyToken == [key |-> "", nbf |-> 0, exp |-> 0]

\* an account handler returns: the calculations are left alone
UserReturn(op, req, err, result, newusers, newtokens, newclock) ==
    /\ Return(op, req, err, result, FALSE, db, newclock)
    /\ users' = newusers
    /\ tokens' = newtokens
    /\ UNCHANGED <<proc, args, ret>>

\* DisableUser, EnableUser and TerminateUser after getUser found u: out is
\* what the method on u returned; time.Now() is read when the status changes;
\* the response keeps the request's id and the claims of its context
statusUpdated(op, claims, id, u, out) ==
    IF out.err # "none"
    THEN UserReturn(op, [ID |-> id, Claims |-> claims], out.err, "nil", users, tokens, clock)
    ELSE UserReturn(op, [ID |-> id, Claims |-> claims], "none", out.user,
                    updateUser(users, out.user), tokens,
                    IF out.user = u THEN clock ELSE clock + 1)

NotAllowed(op, claims, id) ==
    /\ ~claims.IsAdmin \/ getUser(users, UserByID(id)) = {}
    /\ UserReturn(op, [ID |-> id, Claims |-> claims], "PermissionDenied", "nil",
                  users, tokens, clock)

DisableUser(claims, id) ==
    /\ clock < MaxClock
    /\ \/ NotAllowed("DisableUser", claims, id)
       \/ /\ claims.IsAdmin
          /\ \E u \in getUser(users, UserByID(id)) :
                statusUpdated("DisableUser", claims, id, u,
                              Disable(u, claims.Username, clock + 1))

EnableUser(claims, id) ==
    /\ clock < MaxClock
    /\ \/ NotAllowed("EnableUser", claims, id)
       \/ /\ claims.IsAdmin
          /\ \E u \in getUser(users, UserByID(id)) :
                statusUpdated("EnableUser", claims, id, u,
                              Enable(u, claims.Username, clock + 1))

TerminateUser(claims, id) ==
    /\ clock < MaxClock
    /\ \/ NotAllowed("TerminateUser", claims, id)
       \/ /\ claims.IsAdmin
          /\ \E u \in getUser(users, UserByID(id)) :
                statusUpdated("TerminateUser", claims, id, u,
                              Close(u, claims.Username, clock + 1))

\* a handler hands out the pair genToken made at the reading now
Issued(op, req, pair, now) ==
    UserReturn(op, req, "none", pair, users, tokens \cup {pair}, now)

Unauthenticated(op, req, newclock) ==
    UserReturn(op, req, "Unauthenticated", "nil", users, tokens, newclock)

\* Login once the request is valid and getUser found u
loginFound(in, u) ==
    IF ~ComparePassword(u, in.Password)
    THEN Unauthenticated("Login", in, clock)
    ELSE Issued("Login", in, genToken(u, clock + 1), clock + 1)

Login(in) ==
    /\ clock < MaxClock
    /\ \/ /\ ValidateLoginReq(in) # "none"
          /\ UserReturn("Login", in, ValidateLoginReq(in), "nil", users,
                        tokens, clock)
       \/ /\ ValidateLoginReq(in) = "none"
          /\ getUser(users, UserByEmail(in.Email)) = {}
          /\ Unauthenticated("Login", in, clock)
       \/ /\ ValidateLoginReq(in) = "none"
          /\ \E u \in getUser(users, UserByEmail(in.Email)) : loginFound(in, u)

\* RefreshToken once the token was parsed at the reading clock + 1 and
\* getUser found u; genToken reads the clock again
refreshFound(in, u) ==
    IF ~IsEnabled(u)
    THEN Unauthenticated("RefreshToken", in, clock + 1)
    ELSE /\ clock + 1 < MaxClock
         /\ Issued("RefreshToken", in, genToken(u, clock + 2), clock + 2)

RefreshToken(in) ==
    /\ clock < MaxClock
    /\ \/ /\ in.Token = EmptyToken
          /\ Unauthenticated("RefreshToken", in, clock)
       \/ /\ in.Token # EmptyToken
          /\ ~parseRefresh(in.Token, clock + 1)
          /\ Unauthenticated("RefreshToken", in, clock + 1)
       \/ /\ in.Token # EmptyToken
          /\ parseRefresh(in.Token, clock + 1)
          /\ getUser(users, UserByID(in.Token.profile.ID)) = {}
          /\ Unauthenticated("RefreshToken", in, clock + 1)
       \/ /\ in.Token # EmptyToken
          /\ parseRefresh(in.Token, clock + 1)
          /\ \E u \in getUser(users, UserByID(in.Token.profile.ID)) :
                refreshFound(in, u)

NextUser ==
    \/ \E claims \in Callers, id \in UserIDs : DisableUser(claims, id)
    \/ \E claims \in Callers, id \in UserIDs : EnableUser(claims, id)
    \/ \E claims \in Callers, id \in UserIDs : TerminateUser(claims, id)
    \/ \E in \in LoginReqs : Login(in)
    \/ \E t \in HeldTokens \cup {EmptyToken} : RefreshToken([Token |-> t])

SpecUser == Init /\ [][NextUser]_vars

(***************************************************************************)
(* properties                                                              *)
(***************************************************************************)
\* the positions of the stored calculations whose number is exactly n
StoredAs(rows, n) == {i \in DOMAIN rows : rows[i].Number = n}

Lookups == {"GetCalculationByNumber", "ReCalculateIncome", "CompleteCalculation"}

\* C1: with the service operations executed one at a time, once a stored
\* calculation has status Completed none of its fields ever changes again.
C1_CompletedNeverChanges ==
    [][\A i \in DOMAIN db :
            db[i].Status = StatusCompleted => (i \in DOMAIN db' /\ db'[i] = db[i])]_vars

\* a recalculation was asked for a completed calculation and refused
C1_RecalculationOfCompletedRefused ==
    /\ resp.op = "ReCalculateIncome"
    /\ resp.err = "AlreadyCompleted"
    /\ \E i \in StoredAs(dbPre, resp.req.Number) :
            dbPre[i].Status = StatusCompleted

\* C2: when ReCalculateIncome and CompleteCalculation for one business
\* number interleave, a stored calculation that has become Completed is
\* never overwritten by the recalculation and never returns to Pending.
C2_RecalculationKeepsCompleted ==
    resp.op = "ReCalculateIncome" =>
        \A i \in DOMAIN dbPre :
            dbPre[i].Status = StatusCompleted => db[i] = dbPre[i]

\* the upsert of a recalculation has put a completed calculation back to
\* Pending
C2_CompletedBackToPending ==
    /\ resp.op = "ReCalculateIncome"
    /\ \E i \in DOMAIN dbPre :
            dbPre[i].Status = StatusCompleted /\ db[i].Status = StatusPending

\* C3: ReCalculateIncome for a number whose stored calculation is Completed
\* fails with AlreadyCompleted, whatever the edited breakdowns, and leaves
\* the table unchanged.
C3_RecalculateCompletedFails ==
    (/\ resp.op = "ReCalculateIncome"
     /\ \E i \in StoredAs(dbPre, resp.req.Number) :
            dbPre[i].Status = StatusCompleted)
    => (resp.err = "AlreadyCompleted" /\ db = dbPre)

\* a recalculation asked for a completed number succeeded and wrote
C3_RecalculateCompletedWrote ==
    /\ resp.op = "ReCalculateIncome"
    /\ \E i \in StoredAs(dbPre, resp.req.Number) :
            dbPre[i].Status = StatusCompleted
    /\ resp.err = "none"
    /\ db # dbPre

\* C4: CompleteCalculation is idempotent: for a number whose stored
\* calculation is Pending it stores that calculation as Completed and
\* returns it; for a number whose stored calculation is Completed it
\* returns the stored calculation unchanged, writes nothing and returns no
\* error.
C4_CompleteIsIdempotent ==
    resp.op = "CompleteCalculation" =>
        \A i \in StoredAs(dbPre, resp.req.Number) :
            /\ resp.err = "none"
            /\ db[i].Status = StatusCompleted
            /\ resp.calc = db[i]
            /\ dbPre[i].Status = StatusCompleted => db = dbPre

\* CompleteCalculation for a pending number returned, and the calculation
\* of that number is still Pending
C4_PendingLeftPending ==
    /\ resp.op = "CompleteCalculation"
    /\ resp.err = "none"
    /\ \E i \in StoredAs(dbPre, resp.req.Number) :
            dbPre[i].Status = StatusPending /\ db[i].Status = StatusPending

C6_OnlyOneCalculateCreates ==
    /\ \A i, j \in DOMAIN db : db[i].Number = db[j].Number => i = j
    /\ resp.op = "CalculateIncome" => \A i \in DOMAIN dbPre : db[i] = dbPre[i]

\* the upsert of a CalculateIncome has put a completed calculation back to
\* Pending
C6_CalculateOverwroteCompleted ==
    /\ resp.op = "CalculateIncome"
    /\ resp.err = "none"
    /\ \E i \in DOMAIN dbPre :
            dbPre[i].Status = StatusCompleted /\ db[i].Status = StatusPending

\* C7: GetCalculationByNumber, ReCalculateIncome and CompleteCalculation
\* addressed to a number read and change only the stored calculation of
\* exactly that number.
C7_OtherNumbersUntouched ==
    resp.op \in Lookups =>
        /\ Len(db) = Len(dbPre)
        /\ \A i \in DOMAIN dbPre :
                dbPre[i].Number # resp.req.Number => db[i] = dbPre[i]
        /\ resp.err = "none" => resp.calc.Number = resp.req.Number

\* CompleteCalculation addressed to NumA has changed the calculation NumAB
C7_SubstringNumberChanged ==
    /\ resp.op = "CompleteCalculation"
    /\ resp.req.Number = NumA
    /\ \E i \in StoredAs(dbPre, NumAB) : db[i] # dbPre[i]

\* the statement could be opened, its period cell does not break the
\* reader, its header cells are filled and its currency is known
HeadersValid(st) ==
    /\ st.Openable
    /\ ~extractPeriod(st.A7).panic
    /\ ~headerInvalid(extractAccount(st.A9), extractAccount(st.A10),
                      extractAccount(st.A11))
    /\ extractAccount(st.A11) \in DOMAIN Currencies

\* no row of the statement yields a classified transaction
NoClassifiableRow(st) ==
    \A k \in DOMAIN st.Rows :
        \/ decodeRow(st.Rows[k]).skip
        \/ ~matchWordlists(st.Rows[k][3], Wordlists).matched

\* the response is that of a CalculateIncome that opened a stored statement
OpenedStatement ==
    /\ resp.op = "CalculateIncome"
    /\ resp.opened
    /\ resp.req.StatementFileName \in DOMAIN StatementFiles

\* C8: CalculateIncome on a statement with valid headers and no
\* classifiable row fails with InvalidStatement and stores nothing.
C8_NoClassifiableRowFails ==
    (/\ OpenedStatement
     /\ HeadersValid(StatementFiles[resp.req.StatementFileName])
     /\ NoClassifiableRow(StatementFiles[resp.req.StatementFileName]))
    => (resp.err = "InvalidStatement" /\ db = dbPre)

\* a statement without a classifiable row was stored as a calculation
C8_EmptyCalculationStored ==
    /\ OpenedStatement
    /\ NoClassifiableRow(StatementFiles[resp.req.StatementFileName])
    /\ resp.err = "none"
    /\ Len(db) = Len(dbPre) + 1
    /\ db[Len(db)].TotalIncome = Zero

\* the account number or the display name is empty, the currency code is
\* not three characters long, or the currency service does not know it
HeaderFault(st) ==
    /\ st.Openable
    /\ \/ Len(extractAccount(st.A9)) = 0
       \/ Len(extractAccount(st.A10)) = 0
       \/ Len(TrimSpace(extractAccount(st.A11))) # 3
       \/ extractAccount(st.A11) \notin DOMAIN Currencies

\* C9: CalculateIncome fails with InvalidStatement whenever the account
\* number or the display name is empty, the currency code is not three
\* characters long or the currency is unknown, and stores nothing.
C9_HeaderFaultFails ==
    (/\ OpenedStatement
     /\ HeaderFault(StatementFiles[resp.req.StatementFileName]))
    => (resp.err = "InvalidStatement" /\ db = dbPre)

\* a statement with an empty account number ended the handler in a panic
C9_HeaderFaultPanicked ==
    /\ OpenedStatement
    /\ Len(extractAccount(StatementFiles[resp.req.StatementFileName].A9)) = 0
    /\ resp.err = "panic"

\* the entries of the wordlist that match the memo and have no matching
\* entry before them
FirstMatching(memo, wordlists) ==
    {i \in DOMAIN wordlists :
        /\ wordMatches(ToLower(TrimSpace(memo)), TrimSpace(wordlists[i].word))
        /\ \A j \in 1..(i - 1) :
              ~wordMatches(ToLower(TrimSpace(memo)), TrimSpace(wordlists[j].word))}

\* C10: the classifier returns the category and the word of the first
\* entry, in sequence order, that matches the memo, whatever later entries
\* match, and 'no match' when no entry matches.
C10_FirstMatchWins ==
    ret # <<>> =>
        IF FirstMatching(args.memo, args.wordlists) = {}
        THEN /\ ~ret[1].matched
             /\ ret[1].category = SourceUnSpecified
             /\ ret[1].word = <<>>
        ELSE \A i \in FirstMatching(args.memo, args.wordlists) :
                /\ ret[1].matched
                /\ ret[1].category = args.wordlists[i].category
                /\ ret[1].word = TrimSpace(args.wordlists[i].word)

\* [pay -> ALLOWANCE, pay -> SALARY] and the memo "pay received": ALLOWANCE
C10_EarlierOfTwoMatchesReturned ==
    /\ ret # <<>>
    /\ args.memo = <<"p","a","y"," ","r","e","c","e","i","v","e","d">>
    /\ args.wordlists = << [word |-> <<"p","a","y">>, category |-> SourceAllowance],
                           [word |-> <<"p","a","y">>, category |-> SourceSalary] >>
    /\ ret[1].category = SourceAllowance

\* the rule stated for one entry: a word of at most three characters has to
\* equal a whole token of the memo, a longer one has to occur in the memo
EntryShouldMatch(memo, word) ==
    IF Len(word) <= 3
    THEN ToLower(word) \in targetTokens(ToLower(TrimSpace(memo)))
    ELSE Contains(ToLower(TrimSpace(memo)), ToLower(word))

\* C11: an entry whose trimmed word has at most three characters matches a
\* memo only when the case-folded word equals a whole token of the memo
\* (split on "|", then on spaces), never inside a longer token; an entry
\* with a longer word matches exactly when the case-folded word occurs in
\* the trimmed, case-folded memo.
C11_ShortWordsMatchWholeTokens ==
    (ret # <<>> /\ Len(args.wordlists) = 1) =>
        (ret[1].matched <=>
            EntryShouldMatch(args.memo, TrimSpace(args.wordlists[1].word)))

\* a word of two Lao letters (six bytes) was matched inside a longer token
C11_ShortLaoWordMatchedInsideToken ==
    /\ ret # <<>>
    /\ Len(args.wordlists) = 1
    /\ args.wordlists[1].word = <<"ຂ","ກ">>
    /\ args.memo = <<"a","ຂ","ກ","b"," ","1">>
    /\ ret[1].matched

\* the amount cell of a row, thousands separators removed
AmountOf(row) == NewFromString(RemoveChar(row[5], ","))

\* the five conditions under which a row is to be counted
RowQualifies(row) ==
    /\ Len(row) >= 5
    /\ AmountOf(row).ok
    /\ AmountOf(row).val > Zero
    /\ Len(row[3]) # 0
    /\ ParseDate(row[1]).ok
    /\ \E i \in DOMAIN Wordlists :
            wordMatches(ToLower(TrimSpace(row[3])), TrimSpace(Wordlists[i].word))

\* the transactions held in the buckets of a breakdown
BucketTransactions(buckets) ==
    UNION { Range(buckets[i].Transactions) : i \in DOMAIN buckets }

\* the transactions held in the three breakdowns of a calculation
BreakdownTransactions(c) ==
    BucketTransactions(c.SalaryBreakdown.MonthlySalaries)
        \cup BucketTransactions(c.CommissionBreakdown.Commissions)
        \cup BucketTransactions(c.AllowanceBreakdown.Allowances)

RECURSIVE SumBucketTotals(_)
SumBucketTotals(buckets) ==
    IF buckets = <<>> THEN Zero
    ELSE Head(buckets).Total + SumBucketTotals(Tail(buckets))

RECURSIVE SumQualifying(_)
SumQualifying(rows) ==
    IF rows = <<>> THEN Zero
    ELSE (IF RowQualifies(Head(rows)) THEN AmountOf(Head(rows)).val ELSE Zero)
            + SumQualifying(Tail(rows))

\* the rows of the statement of the last response
RespRows == StatementFiles[resp.req.StatementFileName].Rows

\* C12: after a successful CalculateIncome, a row of the statement has a
\* transaction in some breakdown exactly when it has at least five cells,
\* its amount parses to a value above zero, its memo is not empty, its date
\* parses and its memo matches a wordlist entry; the other rows raise no
\* error and are in no bucket and in no total.
C12_RowsCountedIffWellFormed ==
    (OpenedStatement /\ resp.err = "none") =>
        /\ \A k \in DOMAIN RespRows :
                RowQualifies(RespRows[k]) <=>
                    \E t \in BreakdownTransactions(resp.calc) :
                        /\ t.BillNumber = RespRows[k][2]
                        /\ t.Noted = RespRows[k][3]
        /\ SumQualifying(RespRows) =
                SumBucketTotals(resp.calc.SalaryBreakdown.MonthlySalaries)
                + SumBucketTotals(resp.calc.CommissionBreakdown.Commissions)
                + SumBucketTotals(resp.calc.AllowanceBreakdown.Allowances)
        /\ SumQualifying(RespRows) =
                resp.calc.SalaryBreakdown.Total
                + resp.calc.CommissionBreakdown.Total
                + SumBucketTotals(resp.calc.AllowanceBreakdown.Allowances)

\* a statement with counted rows and with a row skipped for each of the
\* five reasons was computed
C12_StatementWithSkippedRowsComputed ==
    /\ OpenedStatement
    /\ resp.err = "none"
    /\ \E k \in DOMAIN RespRows : RowQualifies(RespRows[k])
    /\ \E k \in DOMAIN RespRows : Len(RespRows[k]) < 5
    /\ \E k \in DOMAIN RespRows :
            Len(RespRows[k]) >= 5 /\ ~(AmountOf(RespRows[k]).val > Zero)
    /\ \E k \in DOMAIN RespRows :
            Len(RespRows[k]) >= 5 /\ Len(RespRows[k][3]) = 0
    /\ \E k \in DOMAIN RespRows :
            Len(RespRows[k]) >= 5 /\ ~ParseDate(RespRows[k][1]).ok
    /\ \E k \in DOMAIN RespRows :
            /\ Len(RespRows[k]) >= 5
            /\ AmountOf(RespRows[k]).ok
            /\ AmountOf(RespRows[k]).val > Zero
            /\ ParseDate(RespRows[k][1]).ok
            /\ ~RowQualifies(RespRows[k])

\* the last response is that of a successful CalculateIncome (Compute) or
\* ReCalculateIncome (Recalculate); resp.calc is the calculation
Computed == resp.op = "CalculateIncome" /\ resp.err = "none"

Recalculated == resp.op = "ReCalculateIncome" /\ resp.err = "none"

\* the period of a calculation as a number of months
MonthsOf(c) == c.PeriodInMonth \div Scale

\* the smallest step of a quotient: 10^-DivisionPrecision
QuotientStep == Pow10(ScaleDigits - DivisionPrecision)

\* total / n to DivisionPrecision digits, halves rounded up; 0 when n is 0
\* (total is not negative)
Share(total, n) ==
    IF n = 0 THEN Zero
    ELSE ((2 * total + n * QuotientStep) \div (2 * n * QuotientStep))
            * QuotientStep

BasicOf(c) == c.Source.BasicSalary.MonthlyAverage

\* (average other income + average commission + average allowance) x 0.8
HaircutOf(c) ==
    ((Share(c.TotalOtherIncome, MonthsOf(c))
        + c.Source.Commission.MonthlyAverage
        + c.Source.Allowance.MonthlyAverage) * 8) \div 10

\* what is added to the salary in the monthly average income
OtherTermsOf(c) ==
    IF c.Product = ProductSA
    THEN c.Source.Allowance.MonthlyAverage + c.Source.Commission.MonthlyAverage
    ELSE HaircutOf(c)

\* the interview salary when it is above 0 and below the basic salary
ChosenSalary(interview, basic) ==
    IF interview > Zero /\ interview < basic THEN interview ELSE basic

\* C13: when an interview salary s is declared with 0 < s < basic salary,
\* the monthly average income is s plus the other components (the 80%
\* haircut for PL and SF, average allowance + average commission for SA);
\* when s is 0 or not below the basic salary, the basic salary is used.
C13_InterviewSalaryOverrides ==
    Recalculated =>
        resp.calc.MonthlyAverageIncome =
            ChosenSalary(resp.req.BasicSalaryFromInterview, BasicOf(resp.calc))
                + OtherTermsOf(resp.calc)

\* PL, basic salary 10, declared interview salary 9: the monthly average
\* income is built on 10
C13_InterviewSalaryIgnored ==
    /\ Recalculated
    /\ resp.calc.Product = ProductPL
    /\ resp.req.BasicSalaryFromInterview = NewFromInt(9)
    /\ BasicOf(resp.calc) = NewFromInt(10)
    /\ resp.calc.MonthlyAverageIncome = NewFromInt(10) + HaircutOf(resp.calc)

\* C14: after every successful Compute or Recalculate, whatever the product
\* and the period, the monthly net income is the monthly average income
\* multiplied by the exchange rate.
C14_NetIncomeIsConvertedAverage ==
    (Computed \/ Recalculated) =>
        resp.calc.MonthlyNetIncome =
            Mul(resp.calc.MonthlyAverageIncome, resp.calc.ExchangeRate)

\* a statement whose end date is before its start date (period 0) computed
\* for PL: the monthly average income is above 0, the exchange rate is
\* above 0 and the net income is 0
C14_NetIncomeZeroAtPeriodZero ==
    /\ Computed
    /\ resp.req.StatementFileName = "reversed"
    /\ resp.calc.Product = ProductPL
    /\ resp.calc.PeriodInMonth = Zero
    /\ resp.calc.MonthlyAverageIncome > Zero
    /\ resp.calc.ExchangeRate > Zero
    /\ resp.calc.MonthlyNetIncome = Zero

\* the calendar months from that of a to that of b, both counted
InclusiveMonths(a, b) ==
    IF Before(b, a) THEN Zero
    ELSE NewFromInt((b.y - a.y) * 12 + (b.m - a.m) + 1)

\* C15: the period is the whole-month count between the statement start
\* and end dates with the end month counted (a statement from a day in
\* January to a day in March of the same year has period 3); when the end
\* date is before the start date the period is 0.
C15_PeriodCountsEndMonth ==
    Computed =>
        resp.calc.PeriodInMonth =
            InclusiveMonths(resp.calc.StartedAt, resp.calc.EndedAt)

\* a statement from 5 January to 31 March of one year computed with
\* period 2
C15_JanuaryToMarchIsTwo ==
    /\ Computed
    /\ resp.calc.StartedAt = [y |-> 2024, m |-> 1, d |-> 5]
    /\ resp.calc.EndedAt = [y |-> 2024, m |-> 3, d |-> 31]
    /\ resp.calc.PeriodInMonth = NewFromInt(2)

\* the last request was a Recalculate of a stored calculation of period 0
\* that went as far as the computation
RecalculatedPeriodZero ==
    /\ resp.op = "ReCalculateIncome"
    /\ resp.err \in {"none", "panic"}
    /\ \E i \in StoredAs(dbPre, resp.req.Number) :
            dbPre[i].PeriodInMonth = Zero

\* the period-divided figures of a calculation are 0
PeriodFiguresZero(c) ==
    /\ c.Product = ProductSA => BasicOf(c) = Zero
    /\ c.TotalBasicSalary = Zero
    /\ averageOtherIncome(toStateMap(c), c.PeriodInMonth) = Zero
    /\ c.Source.Commission.MonthlyAverage = Zero
    /\ c.CommissionBreakdown.MonthlyAverage = Zero

\* C16: when the period is 0 (end date before start date), Compute and
\* Recalculate raise no division-by-zero fault and every period-divided
\* figure (SA basic salary, total basic salary, average other income,
\* average commission) is 0.
C16_PeriodZeroIsNoFault ==
    /\ (Computed /\ resp.calc.PeriodInMonth = Zero) =>
            PeriodFiguresZero(resp.calc)
    /\ RecalculatedPeriodZero =>
            resp.err = "none" /\ PeriodFiguresZero(resp.calc)

\* a calculation of the statement whose end date is before its start date,
\* recalculated with an allowance of 0 months: the division faulted
C16_PeriodZeroRecalculateFaulted ==
    /\ RecalculatedPeriodZero
    /\ resp.err = "panic"
    /\ \E i \in StoredAs(dbPre, resp.req.Number) :
            Before(dbPre[i].EndedAt, dbPre[i].StartedAt)

\* the smallest single amount of a bucket's transactions (0 for none)
SmallestAmount(ts) ==
    IF ts = <<>> THEN Zero
    ELSE CHOOSE a \in {ts[i].Amount : i \in DOMAIN ts} :
            \A j \in DOMAIN ts : a <= ts[j].Amount

RECURSIVE SumSmallestAmounts(_)
SumSmallestAmounts(buckets) ==
    IF buckets = <<>> THEN Zero
    ELSE SmallestAmount(Head(buckets).Transactions)
            + SumSmallestAmounts(Tail(buckets))

\* C17: for product SA, total income is the sum, over the salary
\* month-buckets, of the smallest single transaction amount of each bucket,
\* and both the basic salary (monthly) and the total basic salary are that
\* total income divided by the period.
C17_SATotalsFromBucketMinima ==
    ((Computed \/ Recalculated) /\ resp.calc.Product = ProductSA) =>
        /\ resp.calc.TotalIncome =
                SumSmallestAmounts(resp.calc.SalaryBreakdown.MonthlySalaries)
        /\ BasicOf(resp.calc) =
                Share(resp.calc.TotalIncome, MonthsOf(resp.calc))
        /\ resp.calc.TotalBasicSalary =
                Share(resp.calc.TotalIncome, MonthsOf(resp.calc))

\* SA over three months with the salaries 10 / 5 and 7 / 11: total income
\* 10 + 5 + 11 = 26, basic salary and total basic salary 26 / 3
C17_SAQuarterComputed ==
    /\ Computed
    /\ resp.calc.Product = ProductSA
    /\ resp.calc.PeriodInMonth = NewFromInt(3)
    /\ Len(resp.calc.SalaryBreakdown.MonthlySalaries) = 3
    /\ resp.calc.SalaryBreakdown.Total = NewFromInt(33)
    /\ resp.calc.TotalIncome = NewFromInt(26)
    /\ BasicOf(resp.calc) = Share(NewFromInt(26), 3)
    /\ resp.calc.TotalBasicSalary = Share(NewFromInt(26), 3)

\* the sum of the amounts of the transactions ts[from..]
RECURSIVE SumAmountsFrom(_, _)
SumAmountsFrom(ts, from) ==
    IF from > Len(ts) THEN Zero
    ELSE ts[from].Amount + SumAmountsFrom(ts, from + 1)

\* the total of a bucket: the sum of its transaction amounts
BucketSum(bucket) == SumAmountsFrom(bucket.Transactions, 1)

RECURSIVE SumAllAmounts(_)
SumAllAmounts(buckets) ==
    IF buckets = <<>> THEN Zero
    ELSE BucketSum(Head(buckets)) + SumAllAmounts(Tail(buckets))

\* the smallest bucket total (0 for no bucket)
SmallestBucketTotal(buckets) ==
    IF buckets = <<>> THEN Zero
    ELSE CHOOSE a \in {BucketSum(buckets[i]) : i \in DOMAIN buckets} :
            \A j \in DOMAIN buckets : a <= BucketSum(buckets[j])

\* C18: for products PL and SF, total income is the sum of all salary
\* transaction amounts, the basic salary (monthly) is the smallest of the
\* month-bucket totals (not the smallest single transaction), and the total
\* basic salary is the basic salary times the period (monthly totals
\* 10 / 12 / 11 with period 3 give basic 10 and total basic 30).
C18_PLTotalsFromBucketTotals ==
    ((Computed \/ Recalculated)
            /\ resp.calc.Product \in {ProductPL, ProductSF}) =>
        /\ resp.calc.TotalIncome =
                SumAllAmounts(resp.calc.SalaryBreakdown.MonthlySalaries)
        /\ BasicOf(resp.calc) =
                SmallestBucketTotal(resp.calc.SalaryBreakdown.MonthlySalaries)
        /\ resp.calc.TotalBasicSalary =
                BasicOf(resp.calc) * MonthsOf(resp.calc)

\* PL over three months with the monthly totals 10 / 12 (5 and 7) / 11:
\* total income 33, basic salary 10, total basic salary 30
C18_PLQuarterComputed ==
    /\ Computed
    /\ resp.calc.Product = ProductPL
    /\ resp.calc.PeriodInMonth = NewFromInt(3)
    /\ Len(resp.calc.SalaryBreakdown.MonthlySalaries) = 3
    /\ resp.calc.SalaryBreakdown.MonthlySalaries[1].Total = NewFromInt(10)
    /\ resp.calc.SalaryBreakdown.MonthlySalaries[2].Total = NewFromInt(12)
    /\ resp.calc.SalaryBreakdown.MonthlySalaries[3].Total = NewFromInt(11)
    /\ resp.calc.TotalIncome = NewFromInt(33)
    /\ BasicOf(resp.calc) = NewFromInt(10)
    /\ resp.calc.TotalBasicSalary = NewFromInt(30)

\* max(0, total income - total basic salary), both by the PL rule, from the
\* salary buckets and the period of a calculation
OtherIncomeOf(buckets, n) ==
    IF SumAllAmounts(buckets) > SmallestBucketTotal(buckets) * n
    THEN SumAllAmounts(buckets) - SmallestBucketTotal(buckets) * n
    ELSE Zero

\* C19: total other income is max(0, PL-rule total income - PL-rule total
\* basic salary), hence never negative, and average other income is total
\* other income divided by the period (0 when the period is 0).
C19_OtherIncomeIsIncomeAboveBasic ==
    (Computed \/ Recalculated) =>
        /\ resp.calc.TotalOtherIncome =
                OtherIncomeOf(resp.calc.SalaryBreakdown.MonthlySalaries,
                              MonthsOf(resp.calc))
        /\ resp.calc.TotalOtherIncome >= Zero
        /\ averageOtherIncome(toStateMap(resp.calc), resp.calc.PeriodInMonth)
                = Share(resp.calc.TotalOtherIncome, MonthsOf(resp.calc))

\* a statement whose end date is before its start date (period 0, so
\* PL-rule total basic salary 0) with one salary of 3: total other income 0
C19_OtherIncomeZeroAtPeriodZero ==
    /\ Computed
    /\ Before(resp.calc.EndedAt, resp.calc.StartedAt)
    /\ resp.calc.PeriodInMonth = Zero
    /\ SumAllAmounts(resp.calc.SalaryBreakdown.MonthlySalaries) = NewFromInt(3)
    /\ resp.calc.TotalOtherIncome = Zero

\* average other income + average commission + average allowance
VolatileAverages(c) ==
    Share(c.TotalOtherIncome, MonthsOf(c))
        + c.Source.Commission.MonthlyAverage
        + c.Source.Allowance.MonthlyAverage

\* the salaries the monthly average income may be built on: the basic
\* salary, or the interview salary a Recalculate request declares
SalaryChoices ==
    {BasicOf(resp.calc)}
        \cup (IF Recalculated THEN {resp.req.BasicSalaryFromInterview} ELSE {})

\* C20: for PL and SF, the 80%-haircut average is (average other income +
\* average commission + average allowance) x 0.8 exactly, the average
\* commission being the commission total divided by the period, and it is
\* the only non-salary term added to the chosen salary in the monthly
\* average income.
C20_HaircutIsEightTenths ==
    ((Computed \/ Recalculated)
            /\ resp.calc.Product \in {ProductPL, ProductSF}) =>
        /\ resp.calc.Source.Commission.MonthlyAverage =
                Share(resp.calc.CommissionBreakdown.Total, MonthsOf(resp.calc))
        /\ \E salary \in SalaryChoices :
                10 * (resp.calc.MonthlyAverageIncome - salary)
                    = 8 * VolatileAverages(resp.calc)

\* PL over two months with average other income 20, average commission 5
\* (10 / 2) and average allowance 10: the haircut is 28 and the monthly
\* average income is the basic salary 10 plus 28
C20_HaircutScenario ==
    /\ Recalculated
    /\ resp.calc.Product = ProductPL
    /\ resp.calc.PeriodInMonth = NewFromInt(2)
    /\ Share(resp.calc.TotalOtherIncome, 2) = NewFromInt(20)
    /\ resp.calc.CommissionBreakdown.Total = NewFromInt(10)
    /\ resp.calc.Source.Commission.MonthlyAverage = NewFromInt(5)
    /\ resp.calc.Source.Allowance.MonthlyAverage = NewFromInt(10)
    /\ BasicOf(resp.calc) = NewFromInt(10)
    /\ resp.calc.MonthlyAverageIncome = NewFromInt(38)

\* the last request was a Recalculate that went as far as the computation
RecalculateComputed ==
    resp.op = "ReCalculateIncome" /\ resp.err \in {"none", "panic"}

\* the month divisor of a title: the explicit month count when one was
\* provided, 12 otherwise
DivisorOf(months) == IF months = Zero THEN 12 ELSE months \div Scale

\* the sum, over allowance buckets, of bucket total / bucket divisor
RECURSIVE SumTitleAverages(_)
SumTitleAverages(buckets) ==
    IF buckets = <<>> THEN Zero
    ELSE (IF Head(buckets).Transactions = <<>> THEN Zero
          ELSE Share(BucketSum(Head(buckets)), DivisorOf(Head(buckets).Months)))
            + SumTitleAverages(Tail(buckets))

TitlesOf(buckets) ==
    {buckets[i].Title : i \in {j \in DOMAIN buckets :
                                    buckets[j].Transactions # <<>>}}

\* one bucket for each title, holding the transactions whose memo matched
\* that title
GroupedByTitle(buckets) ==
    /\ \A i, j \in DOMAIN buckets :
            buckets[i].Title = buckets[j].Title => i = j
    /\ \A i \in DOMAIN buckets :
            \A k \in DOMAIN buckets[i].Transactions :
                TrimSpace(matchWordlists(buckets[i].Transactions[k].Noted,
                                         Wordlists).word)
                    = TrimSpace(buckets[i].Title)

\* C21: allowance transactions are grouped by the matched wordlist title
\* (not by month) and the average allowance is the sum over the titles of
\* title total / title divisor, the divisor being 12 unless a month count
\* was provided for the title; this holds after Compute and after
\* Recalculate with caller-supplied allowance buckets, whatever the order
\* in which the titles are visited.
C21_AllowanceAveragedByTitle ==
    /\ Computed =>
        /\ GroupedByTitle(resp.calc.AllowanceBreakdown.Allowances)
        /\ \A i \in DOMAIN resp.calc.AllowanceBreakdown.Allowances :
                resp.calc.AllowanceBreakdown.Allowances[i].Months
                    = NewFromInt(12)
        /\ resp.calc.Source.Allowance.MonthlyAverage =
                SumTitleAverages(resp.calc.AllowanceBreakdown.Allowances)
    /\ RecalculateComputed =>
        /\ resp.err = "none"
        /\ TitlesOf(resp.calc.AllowanceBreakdown.Allowances)
                = TitlesOf(resp.req.Allowances)
        /\ GroupedByTitle(resp.calc.AllowanceBreakdown.Allowances)
        /\ resp.calc.Source.Allowance.MonthlyAverage =
                SumTitleAverages(resp.req.Allowances)

\* a Recalculate with a fuel allowance of 7 whose month count was left out:
\* the request ended in a fault instead of an average of 7 / 12
C21_OmittedDivisorFaulted ==
    /\ RecalculateComputed
    /\ Len(resp.req.Allowances) = 1
    /\ resp.req.Allowances[1].Months = Zero
    /\ resp.req.Allowances[1].Transactions # <<>>
    /\ resp.err = "panic"

\* the derived totals of two calculations are the same
SameTotals(a, b) ==
    /\ a.TotalIncome = b.TotalIncome
    /\ a.TotalBasicSalary = b.TotalBasicSalary
    /\ a.TotalOtherIncome = b.TotalOtherIncome
    /\ a.MonthlyAverageIncome = b.MonthlyAverageIncome
    /\ a.MonthlyNetIncome = b.MonthlyNetIncome
    /\ a.Source = b.Source

\* the breakdowns of two calculations are the same
SameBreakdowns(a, b) ==
    /\ a.SalaryBreakdown = b.SalaryBreakdown
    /\ a.AllowanceBreakdown = b.AllowanceBreakdown
    /\ a.CommissionBreakdown = b.CommissionBreakdown

\* the breakdowns of two calculations hold the same buckets, the allowance
\* buckets in any order
SameBuckets(a, b) ==
    /\ a.SalaryBreakdown = b.SalaryBreakdown
    /\ a.CommissionBreakdown = b.CommissionBreakdown
    /\ a.AllowanceBreakdown.Total = b.AllowanceBreakdown.Total
    /\ Len(a.AllowanceBreakdown.Allowances)
            = Len(b.AllowanceBreakdown.Allowances)
    /\ Range(a.AllowanceBreakdown.Allowances)
            = Range(b.AllowanceBreakdown.Allowances)

\* this step is a successful Recalculate that repeats the request of the
\* successful Recalculate before it
RecalculatedAgain ==
    /\ Recalculated
    /\ resp'.op = "ReCalculateIncome"
    /\ resp'.err = "none"
    /\ resp'.req = resp.req

\* C22: Recalculate is idempotent on totals: ReCalculateIncome applied
\* twice to a Pending calculation with the same edited breakdown yields,
\* after the second call, exactly the same breakdowns and derived totals
\* (total income, total basic salary, total other income, monthly average
\* income, monthly net income) as after the first call.
C22_RecalculateIdempotent ==
    [][RecalculatedAgain =>
        SameBreakdowns(resp.calc, resp'.calc)
            /\ SameTotals(resp.calc, resp'.calc)]_vars

\* a Recalculate with allowances of two titles returned the buckets that
\* the stored calculation already held, in another order
C22_AllowancesInAnotherOrder ==
    /\ Recalculated
    /\ resp.req.Allowances = EditTwoAllowances.Allowances
    /\ \E i \in StoredAs(dbPre, resp.req.Number) :
            /\ SameBuckets(dbPre[i], resp.calc)
            /\ SameTotals(dbPre[i], resp.calc)
            /\ dbPre[i].AllowanceBreakdown.Allowances
                    # resp.calc.AllowanceBreakdown.Allowances

\* this step is a successful Recalculate of the calculation just computed,
\* with that calculation's own buckets
RefedAfterCompute ==
    /\ Computed
    /\ resp'.op = "ReCalculateIncome"
    /\ resp'.err = "none"
    /\ resp'.req = RecalculateReq(resp.calc.Number, OwnBuckets(resp.calc))

\* C23: Recalculate re-derives every total with the formulas of Compute:
\* feeding a freshly computed calculation's own salary, allowance and
\* commission buckets back into Recalculate reproduces exactly the
\* breakdowns and derived totals that Compute produced, without reading
\* the statement.
C23_RecalculateReproducesCompute ==
    [][RefedAfterCompute =>
        /\ SameBreakdowns(resp.calc, resp'.calc)
        /\ SameTotals(resp.calc, resp'.calc)
        /\ ~resp'.opened]_vars

\* the calculation computed from the statement with two allowance titles,
\* recalculated with its own buckets: the same buckets and totals, the
\* allowance buckets in another order
C23_RefedInAnotherOrder ==
    /\ Recalculated
    /\ ~resp.opened
    /\ \E i \in StoredAs(dbPre, resp.req.Number) :
            /\ dbPre[i].UpdatedAt = DefaultUpdatedAt
            /\ resp.req = RecalculateReq(dbPre[i].Number, OwnBuckets(dbPre[i]))
            /\ SameBuckets(dbPre[i], resp.calc)
            /\ SameTotals(dbPre[i], resp.calc)
            /\ dbPre[i].AllowanceBreakdown.Allowances
                    # resp.calc.AllowanceBreakdown.Allowances

\* C24: classification leaves the wordlist snapshot unchanged: after
\* matchWordlists every wordlist entry has the same word and category, and
\* the entries are in the same order, as before the call.
C24_WordlistsUnchanged ==
    ret # <<>> => ret[1].wordlists = args.wordlists

\* a snapshot whose first word is " Fuel ": after the call the entry holds
\* "Fuel"; categories, order and length are as before
C24_WordTrimmedInPlace ==
    /\ ret # <<>>
    /\ Len(args.wordlists) >= 1
    /\ args.wordlists[1].word = <<" ","F","u","e","l"," ">>
    /\ ret[1].wordlists[1].word = <<"F","u","e","l">>
    /\ Len(ret[1].wordlists) = Len(args.wordlists)
    /\ \A i \in DOMAIN args.wordlists :
            ret[1].wordlists[i].category = args.wordlists[i].category

\* a statMap with the declared interview salary iv
WithInterview(m, iv) ==
    (SourceBasicSalaryInterview :> [Total |-> iv]) @@ m

\* the derived totals of a statMap for a product
DerivedTotals(m, product, period, rate, order) ==
    [TotalIncome |-> totalIncome(m, product),
     BasicSalary |-> basicSalary(m, product, period),
     TotalBasicSalary |-> totalBasicSalary(m, product, period),
     TotalOtherIncome |-> totalOtherIncome(m, period),
     MonthlyAverageIncome |-> averageMonthlyIncome(m, product, period, order),
     MonthlyNetIncome |-> netIncomeMonthly(m, product, rate, period, order)]

\* the derived totals a calculation holds
TotalsOf(c) ==
    [TotalIncome |-> c.TotalIncome,
     BasicSalary |-> BasicOf(c),
     TotalBasicSalary |-> c.TotalBasicSalary,
     TotalOtherIncome |-> c.TotalOtherIncome,
     MonthlyAverageIncome |-> c.MonthlyAverageIncome,
     MonthlyNetIncome |-> c.MonthlyNetIncome]

\* for the statMap m of the calculation c, its period and exchange rate,
\* and every interview salary, the totals for SF are those for PL
SameForPLAndSF(c, m) ==
    \A order \in allowanceOrders(m) :
        /\ \A iv \in InterviewSalaries :
                DerivedTotals(WithInterview(m, iv), ProductSF, c.PeriodInMonth,
                              c.ExchangeRate, order)
                    = DerivedTotals(WithInterview(m, iv), ProductPL,
                                    c.PeriodInMonth, c.ExchangeRate, order)
        /\ c.Product \in {ProductPL, ProductSF} =>
                /\ TotalsOf(c) = DerivedTotals(m, ProductSF, c.PeriodInMonth,
                                               c.ExchangeRate, order)
                /\ TotalsOf(c) = DerivedTotals(m, ProductPL, c.PeriodInMonth,
                                               c.ExchangeRate, order)

\* C25: products PL and SF are computed by the same rules: for every set
\* of buckets, period, exchange rate and interview salary, the derived
\* totals (total income, basic salary, total basic salary, total other
\* income, monthly average income, monthly net income) for SF equal those
\* for PL.
C25_SFComputedAsPL ==
    /\ Computed => SameForPLAndSF(resp.calc, toStateMap(resp.calc))
    /\ Recalculated =>
            SameForPLAndSF(resp.calc, reCalculateState(resp.calc, resp.req))

\* SF over three months with the monthly totals 10 / 12 / 11: the totals
\* are those PL gives (33, 10, 30, 3), not those of SA
C25_SFQuarterComputed ==
    /\ Computed
    /\ resp.calc.Product = ProductSF
    /\ resp.calc.PeriodInMonth = NewFromInt(3)
    /\ resp.calc.TotalIncome = NewFromInt(33)
    /\ BasicOf(resp.calc) = NewFromInt(10)
    /\ resp.calc.TotalBasicSalary = NewFromInt(30)
    /\ resp.calc.TotalOtherIncome = NewFromInt(3)
    /\ totalIncome(toStateMap(resp.calc), ProductSA) = NewFromInt(26)

\* every bucket total is the sum of the bucket's transactions and total is
\* the sum of the amounts of all the transactions of the buckets
TotalsAreSums(buckets, total) ==
    /\ \A i \in DOMAIN buckets : buckets[i].Total = BucketSum(buckets[i])
    /\ total = SumAllAmounts(buckets)

\* C26: after every Compute and every Recalculate, the grand total of the
\* salary breakdown and of the commission breakdown is the sum of the
\* amounts of the transactions held in that breakdown's buckets (and each
\* bucket total is the sum of its own transactions), whatever bucket
\* totals the caller supplied.
C26_GrandTotalsAreSums ==
    (Computed \/ Recalculated) =>
        /\ TotalsAreSums(resp.calc.SalaryBreakdown.MonthlySalaries,
                         resp.calc.SalaryBreakdown.Total)
        /\ TotalsAreSums(resp.calc.CommissionBreakdown.Commissions,
                         resp.calc.CommissionBreakdown.Total)

\* a Recalculate with one commission of 10 sent with the bucket total 77:
\* the bucket total is 10 and the grand total of the breakdown is 77
C26_SuppliedCommissionTotalKept ==
    /\ Recalculated
    /\ Len(resp.req.Commissions) = 1
    /\ resp.req.Commissions[1].Total = NewFromInt(77)
    /\ Len(resp.calc.CommissionBreakdown.Commissions) = 1
    /\ resp.calc.CommissionBreakdown.Commissions[1].Total = NewFromInt(10)
    /\ resp.calc.CommissionBreakdown.Total = NewFromInt(77)

\* C27: ReCalculateIncome on a Pending calculation never faults: for every
\* caller-supplied breakdown, an allowance bucket whose months divisor is
\* zero or left out included, it ends with a recomputed calculation or
\* with an error value, with no division by zero.
C27_RecalculateNeverFaults ==
    resp.op = "ReCalculateIncome" => resp.err # "panic"

\* a Recalculate of a stored Pending calculation with an allowance bucket of
\* divisor 0 ended in a panic; nothing was saved
C27_ZeroDivisorFaulted ==
    /\ resp.op = "ReCalculateIncome"
    /\ resp.err = "panic"
    /\ \E k \in DOMAIN resp.req.Allowances :
            /\ resp.req.Allowances[k].Months = Zero
            /\ resp.req.Allowances[k].Transactions # <<>>
    /\ \E i \in StoredAs(dbPre, resp.req.Number) :
            dbPre[i].Status = StatusPending
    /\ db = dbPre

\* the last response is the list of a successful
\* ListIncomeTransactionsByNumber
Listed == resp.op = "ListIncomeTransactionsByNumber" /\ resp.err = "none"

\* the transactions of the buckets whose date is in the month asked for
InMonth(buckets, month) ==
    {t \in BucketTransactions(buckets) : monthLabel(t.Date) = month}

\* the transactions of a month that the calculation c holds under a category
ClassifiedAs(c, category, month) ==
    IF category = SourceSalary
    THEN InMonth(c.SalaryBreakdown.MonthlySalaries, month)
    ELSE IF category = SourceCommission
    THEN InMonth(c.CommissionBreakdown.Commissions, month)
    ELSE IF category = SourceAllowance
    THEN InMonth(c.AllowanceBreakdown.Allowances, month)
    ELSE {}

\* C28: ListIncomeTransactionsByNumber(number, category, month) returns
\* exactly the statement transactions of that month that Compute classifies
\* into that category: a transaction whose memo matches words of several
\* categories is listed only under the category chosen by the first-match
\* rule over the full ordered wordlist.
C28_ListedAsClassified ==
    Listed =>
        \A i \in StoredAs(db, resp.req.Number) :
            /\ Range(resp.calc)
                    = ClassifiedAs(db[i], resp.req.Category, resp.req.Month)
            /\ Len(resp.calc) = Cardinality(Range(resp.calc))

\* the row "pay fuel" of March, which Compute put under Salary, is listed
\* under Allowance
C28_SalaryRowListedAsAllowance ==
    /\ Listed
    /\ resp.req.Category = SourceAllowance
    /\ resp.req.Month = <<"March", 2024>>
    /\ \E k \in DOMAIN resp.calc :
            /\ resp.calc[k].Noted = <<"p","a","y"," ","f","u","e","l">>
            /\ \E i \in StoredAs(db, resp.req.Number) :
                    resp.calc[k] \in ClassifiedAs(db[i], SourceSalary,
                                                  <<"March", 2024>>)

\* what Recalculate is to leave alone: the business number, the statement
\* reference, the product, the account identity, the period bounds and
\* length, the exchange rate, the status and the creation audit fields
FrameOf(c) ==
    [ID |-> c.ID, Number |-> c.Number,
     StatementFileName |-> c.StatementFileName, Product |-> c.Product,
     Account |-> c.Account, StartedAt |-> c.StartedAt, EndedAt |-> c.EndedAt,
     PeriodInMonth |-> c.PeriodInMonth, ExchangeRate |-> c.ExchangeRate,
     Status |-> c.Status, CreatedBy |-> c.CreatedBy, CreatedAt |-> c.CreatedAt]

\* C29: Recalculate changes only the breakdowns, the derived totals and the
\* updated-by / updated-at audit fields: the business number, statement
\* reference, product, account identity, period bounds, period length,
\* exchange rate, status and created-by / created-at of the calculation
\* are the same after ReCalculateIncome as before.
C29_RecalculateKeepsFrame ==
    Recalculated =>
        /\ \E i \in DOMAIN dbPre : dbPre[i].ID = resp.calc.ID
        /\ \A i \in DOMAIN dbPre :
                dbPre[i].ID = resp.calc.ID =>
                    /\ FrameOf(resp.calc) = FrameOf(dbPre[i])
                    /\ FrameOf(db[i]) = FrameOf(dbPre[i])

\* a calculation in USD (rate 1.5, period 2) created by one user and
\* recalculated by another with other salary buckets
C29_RecalculatedByAnother ==
    /\ Recalculated
    /\ resp.calc.UpdatedBy # resp.calc.CreatedBy
    /\ resp.calc.UpdatedAt > resp.calc.CreatedAt
    /\ resp.calc.ExchangeRate = Currencies[<<"U","S","D">>]
    /\ resp.calc.PeriodInMonth = NewFromInt(2)
    /\ \E i \in DOMAIN dbPre :
            /\ dbPre[i].ID = resp.calc.ID
            /\ dbPre[i].SalaryBreakdown # resp.calc.SalaryBreakdown
            /\ dbPre[i].TotalIncome # resp.calc.TotalIncome
            /\ db[i].TotalIncome = resp.calc.TotalIncome

\* the rows of the user table whose id is id
UsersOfID(id) == {users[i] : i \in {j \in DOMAIN users : users[j].ID = id}}

\* an administrator's request whose handler op has just returned, on a user
\* that was Closed when it began
OnClosedUser(op) ==
    /\ resp'.op = op
    /\ resp'.req.Claims.IsAdmin
    /\ \E u \in UsersOfID(resp'.req.ID) : u.Status = StatusClosed

\* a handler that has just handed out a token pair
HandedOut(r) == r.op \in {"Login", "RefreshToken"} /\ r.err = "none"

\* C30: the status of a user account gates its credentials. Closed is
\* terminal: no step takes a Closed user to another status, EnableUser and
\* DisableUser on a Closed user fail with FailedPrecondition and leave the
\* table as it was, and TerminateUser on a Closed user succeeds and leaves the
\* table as it was. Neither Login nor RefreshToken hands a token pair to a
\* user whose status is not Enabled.
C30_StatusGatesCredentials ==
    [][/\ \A i \in DOMAIN users :
             users[i].Status = StatusClosed => users'[i].Status = StatusClosed
       /\ OnClosedUser("EnableUser") \/ OnClosedUser("DisableUser")
             => resp'.err = "FailedPrecondition" /\ users' = users
       /\ OnClosedUser("TerminateUser") => resp'.err = "none" /\ users' = users
       /\ HandedOut(resp')
             => \A u \in UsersOfID(resp'.calc.Refresh.profile.ID) : IsEnabled(u)
      ]_vars

\* Login has handed a token pair to a user whose status is not Enabled
C30_TokenForUserNotEnabled ==
    /\ resp.op = "Login"
    /\ resp.err = "none"
    /\ \E u \in UsersOfID(resp.calc.Refresh.profile.ID) : ~IsEnabled(u)

====
